---------------------------- MODULE Spec2Model ----------------------------
(***************************************************************************)
(* Model of the DoorDash order scheduler: the trigger engine of            *)
(* js/models.js (SchedulesModel) and js/scheduler.js (Scheduler), the      *)
(* client side of an automation run, js/doordash.js (DoorDash), and the    *)
(* automation server, server/server.js and server/puppeteer/autoorder.js.  *)
(*                                                                         *)
(* Time is in milliseconds, as in the code (Date.getTime()).  The origin   *)
(* is a local midnight that starts a Sunday and the local zone has a fixed *)
(* UTC offset, so getDay() and setHours() are plain arithmetic.  An ISO    *)
(* string (toISOString) is represented by the millisecond count it         *)
(* denotes: the string keeps milliseconds, so new Date(iso).getTime()      *)
(* gives back exactly the instant that was formatted.                      *)
(***************************************************************************)
EXTENDS Integers, Sequences, FiniteSets, Bags, TLC

\* ------------------------------------------------------------------ bounds
\* How many times the clock may advance in one behaviour.
MaxTicks == 2
\* How many times the operator saves an edited schedule in one behaviour.
MaxEdits == 1
\* How many DoorDash.triggerOrder calls the operator makes in one behaviour.
MaxCalls == 2
\* How many orders a second tab of the app posts in one behaviour.
MaxExternalPosts == 1
\* How many requests arbitrary clients post to the server in one behaviour.
MaxPosts == 2
\* The longest item list of a favorite.
MaxItems == 2
\* How many times the interval timer fires in one behaviour when it fires on
\* time.
MaxPolls == 3
\* How many times a function called on its own is called with one input.
MaxApplications == 2
\* The most pieces (words, spaces, marks) of a generated name.
MaxPieces == 3
\* The most menu entries one page query returns.
MaxCandidates == 2
\* How many times startPolling is called after Scheduler.init.
MaxStarts == 2

\* ------------------------------------------------------------ time, nulls
\* JavaScript null / undefined for a timestamp, a time of day or an id.
NULL == -1

SECOND == 1000
MINUTE == 60 * SECOND
HOUR == 60 * MINUTE
DAY == 24 * HOUR

\* Date.prototype.getDay(): 0 = Sunday .. 6 = Saturday.
getDay(t) == (t \div DAY) % 7

\* The local midnight that starts the day of t.
startOfDay(t) == (t \div DAY) * DAY

\* The instant at which every behaviour starts: Sunday 10:00.
StartTime == 10 * HOUR

\* The amounts by which the clock advances between two events.
TickSteps == {20 * SECOND, 5 * MINUTE, DAY}

\* ------------------------------------------------- SchedulesModel (models.js)
\* The stored schedules and favorites (Storage.generateId values).
ScheduleIds == {1}
FavoriteIds == {1}

\* A missing time of day (data.time || null).
NOTIME == <<>>

\* data.time, 'HH:MM', split in calculateNextTrigger into hours and minutes.
hoursOf(time) == time[1]
minutesOf(time) == time[2]

\* (data.reminderMinutesBefore || 0) * 60 * 1000
reminderOffset(data) == data.reminderMinutesBefore * 60 * 1000

\* A loop of calculateNextTrigger over i = 0 .. 5: today and five more days.
RECURSIVE recurringScanSixDays(_, _, _)
recurringScanSixDays(data, now, i) ==
    IF i >= 6 THEN NULL
    ELSE LET checkDate == now + i * DAY
             triggerTime == startOfDay(checkDate)
                              + hoursOf(data.time) * HOUR
                              + minutesOf(data.time) * MINUTE
                              - reminderOffset(data)
         IN IF getDay(checkDate) \in data.daysOfWeek /\ triggerTime > now
            THEN triggerTime
            ELSE recurringScanSixDays(data, now, i + 1)

\* The loop of calculateNextTrigger over i = 0 .. 6: checkDate is now plus i
\* days; on a selected weekday it is set to hours:minutes and the first
\* trigger time after now is returned.
RECURSIVE recurringScan(_, _, _)
recurringScan(data, now, i) ==
    IF i >= 7 THEN NULL
    ELSE LET checkDate == now + i * DAY
             triggerTime == startOfDay(checkDate)
                              + hoursOf(data.time) * HOUR
                              + minutesOf(data.time) * MINUTE
                              - reminderOffset(data)
         IN IF getDay(checkDate) \in data.daysOfWeek /\ triggerTime > now
            THEN triggerTime
            ELSE recurringScan(data, now, i + 1)

\* A calculateNextTrigger that never compares the trigger time with now.
calculateNextTriggerAnyTime(data, now) ==
    IF data.type = "once"
    THEN IF data.dateTime = NULL THEN NULL
         ELSE data.dateTime - reminderOffset(data)
    ELSE IF data.time = NOTIME \/ data.daysOfWeek = {} THEN NULL
    ELSE startOfDay(now) + hoursOf(data.time) * HOUR + minutesOf(data.time) * MINUTE
           - reminderOffset(data)

\* A calculateNextTrigger that lets a one-time trigger at the very instant
\* of the call pass.
calculateNextTriggerNotBefore(data, now) ==
    IF data.type = "once"
    THEN IF data.dateTime = NULL THEN NULL
         ELSE LET triggerTime == data.dateTime - reminderOffset(data)
              IN IF triggerTime >= now THEN triggerTime ELSE NULL
    ELSE IF data.time = NOTIME \/ data.daysOfWeek = {} THEN NULL
    ELSE recurringScan(data, now, 0)

\* SchedulesModel.calculateNextTrigger(data), evaluated at instant now.
calculateNextTrigger(data, now) ==
    IF data.type = "once"
    THEN IF data.dateTime = NULL THEN NULL
         ELSE LET triggerTime == data.dateTime - reminderOffset(data)
              IN IF triggerTime > now THEN triggerTime ELSE NULL
    ELSE IF data.type = "recurring"
    THEN IF data.time = NOTIME \/ data.daysOfWeek = {} THEN NULL
         ELSE recurringScan(data, now, 0)
    ELSE NULL

\* The timing data that update and markTriggered hand to calculateNextTrigger.
timingOf(s) ==
    [type |-> s.type, daysOfWeek |-> s.daysOfWeek, time |-> s.time,
     dateTime |-> s.dateTime, reminderMinutesBefore |-> s.reminderMinutesBefore]

\* SchedulesModel.create(data): the stored schedule.
create(id, data, now) ==
    [id |-> id,
     favoriteId |-> data.favoriteId,
     type |-> data.type,
     daysOfWeek |-> data.daysOfWeek,
     time |-> data.time,
     dateTime |-> data.dateTime,
     reminderMinutesBefore |->
         IF data.reminderMinutesBefore = 0 THEN 15 ELSE data.reminderMinutesBefore,
     autoOpen |-> data.autoOpen,
     enabled |-> TRUE,
     lastTriggeredAt |-> NULL,
     nextTriggerAt |-> calculateNextTrigger(data, now)]

\* An update that starts the schedule afresh, as create does.
updateResetsLastTriggered(s, data, now) ==
    [s EXCEPT !.lastTriggeredAt = NULL, !.type = data.type]

\* SchedulesModel.update(id, data) for the schedule form (App.saveSchedule):
\* a once edit carries dateTime, a recurring edit carries daysOfWeek and time;
\* the other timing fields and enabled stay as stored.
update(s, data, now) ==
    LET edited ==
          [s EXCEPT !.favoriteId = data.favoriteId,
                    !.type = data.type,
                    !.daysOfWeek = IF data.type = "recurring"
                                   THEN data.daysOfWeek ELSE @,
                    !.time = IF data.type = "recurring" THEN data.time ELSE @,
                    !.dateTime = IF data.type = "once" THEN data.dateTime ELSE @,
                    !.reminderMinutesBefore = data.reminderMinutesBefore,
                    !.autoOpen = data.autoOpen]
    IN [edited EXCEPT !.nextTriggerAt = calculateNextTrigger(timingOf(edited), now)]

\* SchedulesModel.toggle(id): update(id, {enabled: !enabled}).
toggle(s, now) ==
    [s EXCEPT !.enabled = ~s.enabled,
              !.nextTriggerAt = calculateNextTrigger(timingOf(s), now)]

\* A markTriggered that computes the new schedule and never stores it.
markTriggeredNotStored(s, now) == s

\* A markTriggered that leaves a one-time schedule enabled.
markTriggeredOnceStaysEnabled(s, now) ==
    IF s.type = "once"
    THEN [s EXCEPT !.lastTriggeredAt = now, !.nextTriggerAt = NULL]
    ELSE [s EXCEPT !.lastTriggeredAt = now,
                   !.nextTriggerAt = calculateNextTrigger(timingOf(s), now)]

\* SchedulesModel.markTriggered(id), applied to the stored schedule s.
markTriggered(s, now) ==
    IF s.type = "once"
    THEN [s EXCEPT !.lastTriggeredAt = now,
                   !.enabled = FALSE,
                   !.nextTriggerAt = NULL]
    ELSE [s EXCEPT !.lastTriggeredAt = now,
                   !.nextTriggerAt = calculateNextTrigger(timingOf(s), now)]

\* new Date(lastTriggeredAt).getTime(), 0 when it is null.
lastTriggeredTime(s) == IF s.lastTriggeredAt = NULL THEN 0 ELSE s.lastTriggeredAt

\* The window of getDueSchedules: 30 * 1000.
threshold == 30 * 1000

\* A getDueSchedules filter that keeps disabled schedules.
isDueIgnoringEnabled(s, now) ==
    /\ s.nextTriggerAt # NULL
    /\ s.nextTriggerAt <= now
    /\ s.nextTriggerAt > now - threshold
    /\ lastTriggeredTime(s) < s.nextTriggerAt

\* A getDueSchedules filter whose window is open at both ends.
isDueBeforeNow(s, now) ==
    /\ s.enabled
    /\ s.nextTriggerAt # NULL
    /\ s.nextTriggerAt < now
    /\ s.nextTriggerAt > now - threshold
    /\ lastTriggeredTime(s) < s.nextTriggerAt

\* The filter of SchedulesModel.getDueSchedules at instant now.
isDue(s, now) ==
    /\ s.enabled
    /\ s.nextTriggerAt # NULL
    /\ s.nextTriggerAt <= now
    /\ s.nextTriggerAt > now - threshold
    /\ lastTriggeredTime(s) < s.nextTriggerAt


\* --------------------------------------------------------------- the state
VARIABLES
    now,               \* the clock: Date.now()
    ticks,             \* how many times the clock has advanced
    edits,             \* how many times a schedule has been edited
    schedules,         \* Storage SCHEDULES: id -> stored schedule
    favorites,         \* Storage FAVORITES: id -> [items]
    snoozedSchedules,  \* Scheduler.snoozedSchedules: id -> snooze end time
    banner,            \* the schedule id of the visible banner, or NULL
    fired,             \* the bag of completed triggerSchedule calls
    polled,            \* checkSchedules has run since the clock last advanced
    snoozeMark,        \* id -> when its last snooze ends and how often it
                       \* had fired when it was snoozed
    isAutomating,      \* DoorDash.isAutomating
    calls,             \* the DoorDash.triggerOrder invocations, in call order
    history,           \* Storage ORDER_HISTORY, oldest first
    requests,          \* the POST /api/order requests the server is handling
    externalPosts,     \* how many of them came from other clients
    input,             \* the arguments of a function called on its own
    output,            \* what its calls have returned, in call order
    menuPage,          \* the browser page and where tryAddItem stands on it
    timers             \* Scheduler.intervalId and the interval timers that run

schedVars == <<schedules, snoozedSchedules, banner, fired, polled, snoozeMark>>
orderVars == <<isAutomating, calls, history, requests, externalPosts>>
vars == <<now, ticks, edits, schedules, favorites, snoozedSchedules, banner, fired,
          polled, snoozeMark,
          isAutomating, calls, history, requests, externalPosts, input, output, menuPage,
          timers>>

\* No function is being called on its own.
NoInput == <<>>

\* The poll timer after Scheduler.init: startPolling has run once.  active
\* is the set of interval timers the host runs, made counts the setInterval
\* calls (the ids are 1, 2, ...), last and immediate are not data of the
\* code: they tell which of startPolling and stopPolling was called last and
\* how many schedules the immediate check of the last startPolling fired.
Started == [intervalId |-> 1, active |-> {1}, made |-> 1, last |-> "start",
            immediate |-> 0]

\* The store page as automateOrder has loaded it: its search field is empty
\* and tryAddItem has not been called.
NoPage == [pc |-> "loaded", field |-> "empty"]

\* The smallest element of a non-empty set of numbers.
Min(S) == CHOOSE x \in S : \A y \in S : x <= y

\* ------------------------------------------------ DoorDash (js/doordash.js)
\* A triggerOrder that tests the flag and does not set it.
triggerOrderFlagNotSet(st, favoriteId, origin) ==
    IF st.isAutomating
    THEN [st EXCEPT !.calls = Append(@, [pc |-> "rejected", favoriteId |-> favoriteId,
                                         origin |-> origin])]
    ELSE [st EXCEPT !.calls = Append(@, [pc |-> "checkServer", favoriteId |-> favoriteId,
                                         origin |-> origin])]

\* DoorDash.triggerOrder(favorite) up to its first await: a call made while
\* isAutomating returns 'Already automating'; otherwise the flag is set and
\* the call waits for checkServer.  origin tells who made the call.
triggerOrder(st, favoriteId, origin) ==
    IF st.isAutomating
    THEN [st EXCEPT !.calls = Append(@, [pc |-> "rejected", favoriteId |-> favoriteId,
                                         origin |-> origin])]
    ELSE [st EXCEPT !.isAutomating = TRUE,
                    !.calls = Append(@, [pc |-> "checkServer", favoriteId |-> favoriteId,
                                         origin |-> origin])]

\* ------------------------------------------------ Scheduler (js/scheduler.js)
\* The state a scan reads and writes.
scanState ==
    [schedules |-> schedules, snoozed |-> snoozedSchedules, banner |-> banner,
     fired |-> fired, isAutomating |-> isAutomating, calls |-> calls]

\* Map.prototype.delete
mapDelete(m, k) == [x \in DOMAIN m \ {k} |-> m[x]]

\* A triggerSchedule that orders whether or not autoOpen is set.
triggerScheduleAlwaysOrders(st, schedule, missed, t) ==
    IF schedule.favoriteId \notin DOMAIN favorites THEN st
    ELSE triggerOrder([st EXCEPT !.schedules[schedule.id] = markTriggered(@, t),
                                 !.fired = @ (+) SetToBag({[id |-> schedule.id,
                                                            instant |-> schedule.nextTriggerAt,
                                                            missed |-> missed]}),
                                 !.banner = schedule.id],
                      schedule.favoriteId, "schedule")

\* Scheduler.triggerSchedule(schedule, missed): schedule is the object the
\* scan read; markTriggered works on the stored one.
triggerSchedule(st, schedule, missed, t) ==
    IF schedule.favoriteId \notin DOMAIN favorites THEN st
    ELSE LET marked ==
               [st EXCEPT !.schedules[schedule.id] = markTriggered(@, t),
                          !.fired = @ (+) SetToBag({[id |-> schedule.id,
                                                     instant |-> schedule.nextTriggerAt,
                                                     missed |-> missed]}),
                          !.banner = schedule.id]
         IN IF schedule.autoOpen
            THEN triggerOrder(marked, schedule.favoriteId, "schedule")
            ELSE marked

\* A checkSchedules iteration that does nothing while an automation run is
\* in flight.
checkOneBlockedByRun(st, schedule, t) ==
    IF st.isAutomating THEN st
    ELSE IF schedule.id \in DOMAIN st.snoozed /\ t < st.snoozed[schedule.id]
    THEN st
    ELSE triggerSchedule([st EXCEPT !.snoozed = mapDelete(@, schedule.id)],
                         schedule, FALSE, t)

\* One iteration of the forEach of checkSchedules.
checkOne(st, schedule, t) ==
    IF schedule.id \in DOMAIN st.snoozed /\ t < st.snoozed[schedule.id]
    THEN st
    ELSE triggerSchedule([st EXCEPT !.snoozed = mapDelete(@, schedule.id)],
                         schedule, FALSE, t)

\* The forEach of checkSchedules over the due schedules, in stored order.
RECURSIVE checkEach(_, _, _, _)
checkEach(st, read, ids, t) ==
    IF ids = {} THEN st
    ELSE LET id == Min(ids)
         IN checkEach(checkOne(st, read[id], t), read, ids \ {id}, t)

\* Scheduler.checkSchedules()
checkSchedules(st, t) ==
    LET dueSchedules == {id \in DOMAIN st.schedules : isDue(st.schedules[id], t)}
    IN checkEach(st, st.schedules, dueSchedules, t)

\* The window of checkMissedReminders: 5 * 60 * 1000.
missedWindow == 5 * 60 * 1000

\* A checkMissedReminders test with no recovery window.
isMissedNoWindow(s, t) ==
    /\ s.enabled
    /\ s.nextTriggerAt # NULL
    /\ s.nextTriggerAt < t
    /\ lastTriggeredTime(s) < s.nextTriggerAt

\* The test of checkMissedReminders on one schedule.
isMissed(s, t) ==
    /\ s.enabled
    /\ s.nextTriggerAt # NULL
    /\ s.nextTriggerAt < t
    /\ s.nextTriggerAt > t - missedWindow
    /\ lastTriggeredTime(s) < s.nextTriggerAt

\* The forEach of checkMissedReminders over all schedules, in stored order.
RECURSIVE missedEach(_, _, _, _)
missedEach(st, read, ids, t) ==
    IF ids = {} THEN st
    ELSE LET id == Min(ids)
             next == IF isMissed(read[id], t)
                     THEN triggerSchedule(st, read[id], TRUE, t)
                     ELSE st
         IN missedEach(next, read, ids \ {id}, t)

\* Scheduler.checkMissedReminders()
checkMissedReminders(st, t) ==
    missedEach(st, st.schedules, DOMAIN st.schedules, t)

\* Writes a scan's result back to the state.
Store(st) ==
    /\ schedules' = st.schedules
    /\ snoozedSchedules' = st.snoozed
    /\ banner' = st.banner
    /\ fired' = st.fired
    /\ isAutomating' = st.isAutomating
    /\ calls' = st.calls

\* How often schedule id has been fired.
FiresOf(id) ==
    LET of == {e \in BagToSet(fired) : e.id = id}
        RECURSIVE sum(_)
        sum(S) == IF S = {} THEN 0
                  ELSE LET e == CHOOSE x \in S : TRUE
                       IN CopiesIn(e, fired) + sum(S \ {e})
    IN sum(of)

\* The clock advances.
Tick ==
    /\ ticks < MaxTicks
    /\ \E d \in TickSteps : now' = now + d
    /\ ticks' = ticks + 1
    /\ polled' = FALSE
    /\ UNCHANGED <<input, output, menuPage, timers, edits, schedules, snoozedSchedules, banner, fired,
                   snoozeMark, favorites, orderVars>>

\* The interval timer of startPolling fires: checkSchedules().
Poll ==
    /\ DOMAIN schedules # {}
    /\ Store(checkSchedules(scanState, now))
    /\ polled' = TRUE
    /\ UNCHANGED <<input, output, menuPage, timers, now, ticks, edits, favorites, snoozeMark,
                   history, requests, externalPosts>>

\* The visibilitychange listener of setupVisibilityHandler, called with
\* document.visibilityState.
OnVisibilityChange(visibilityState) ==
    /\ DOMAIN schedules # {}
    /\ IF visibilityState = "visible"
       THEN /\ Store(checkSchedules(checkMissedReminders(scanState, now), now))
            /\ polled' = TRUE
       ELSE UNCHANGED <<schedules, snoozedSchedules, banner, fired, polled,
                        isAutomating, calls>>
    /\ UNCHANGED <<input, output, menuPage, timers, now, ticks, edits, favorites, snoozeMark,
                   history, requests, externalPosts>>

\* The document's visibility changes.
VisibilityChange ==
    \E visibilityState \in {"visible", "hidden"} : OnVisibilityChange(visibilityState)

\* The minutes the banner's snooze button passes to Scheduler.snooze.
SnoozeMinutes == 5

\* A snooze that also moves the schedule's nextTriggerAt to the snooze end.
snoozeReschedules(st, scheduleId, minutes, t) ==
    [st EXCEPT !.snoozed = (scheduleId :> (t + minutes * 60 * 1000)) @@ @,
               !.schedules[scheduleId].nextTriggerAt = t + minutes * 60 * 1000,
               !.banner = NULL]

\* Scheduler.snooze(scheduleId, minutes): the snooze end is put in the map
\* and the banner is hidden.
snooze(st, scheduleId, minutes, t) ==
    [st EXCEPT !.snoozed = (scheduleId :> (t + minutes * 60 * 1000)) @@ @,
               !.banner = NULL]

\* The banner's snooze button: Scheduler.snooze(scheduleId, 5) for the
\* schedule the banner shows.
Snooze ==
    /\ banner # NULL
    /\ Store(snooze(scanState, banner, SnoozeMinutes, now))
    /\ snoozeMark' = (banner :> [until |-> now + SnoozeMinutes * 60 * 1000,
                                 fires |-> FiresOf(banner)]) @@ snoozeMark
    /\ UNCHANGED <<input, output, menuPage, timers, now, ticks, edits, favorites, polled, history, requests,
                   externalPosts>>

\* The banner's dismiss button: UI.hideNotificationBanner().
Dismiss ==
    /\ banner # NULL
    /\ banner' = NULL
    /\ UNCHANGED <<input, output, menuPage, timers, now, ticks, edits, schedules, favorites, snoozedSchedules, fired,
                   polled, snoozeMark, orderVars>>

\* App.toggleSchedule(id)
ToggleSchedule ==
    /\ \E id \in DOMAIN schedules :
          schedules' = [schedules EXCEPT ![id] = toggle(@, now)]
    /\ UNCHANGED <<input, output, menuPage, timers, now, ticks, edits, favorites, snoozedSchedules, banner, fired,
                   polled, snoozeMark, orderVars>>

\* A manualTrigger that orders only for an enabled schedule.
manualTriggerOnlyIfEnabled(st, scheduleId) ==
    IF scheduleId \notin DOMAIN st.schedules THEN st
    ELSE IF st.schedules[scheduleId].favoriteId \notin DOMAIN favorites THEN st
    ELSE IF ~st.schedules[scheduleId].enabled THEN st
    ELSE triggerOrder(st, st.schedules[scheduleId].favoriteId, "manual")

\* Scheduler.manualTrigger(scheduleId): a toast if the schedule or its
\* favorite is not found, otherwise DoorDash.triggerOrder(favorite).
manualTrigger(st, scheduleId) ==
    IF scheduleId \notin DOMAIN st.schedules THEN st
    ELSE IF st.schedules[scheduleId].favoriteId \notin DOMAIN favorites THEN st
    ELSE triggerOrder(st, st.schedules[scheduleId].favoriteId, "manual")

\* The trigger button of a schedule item: Scheduler.manualTrigger(id).
ManualTrigger ==
    /\ Len(calls) < MaxCalls
    /\ \E scheduleId \in DOMAIN schedules : Store(manualTrigger(scanState, scheduleId))
    /\ UNCHANGED <<input, output, menuPage, timers, now, ticks, edits, favorites, polled, snoozeMark,
                   history, requests, externalPosts>>

\* What the operator enters in the schedule form: a one-time target this
\* far ahead of the clock, or a time of day and a set of weekdays, and the
\* reminder offset in minutes.
FormDelays == {20 * SECOND, 5 * MINUTE}
FormTimes == {<<10, 5>>}
FormDays == {{0}, {0, 1}}
FormReminders == {0, 15}

\* The data App.saveSchedule builds from the form at instant t.
ScheduleInputs(t) ==
    {[type |-> "once", favoriteId |-> f, daysOfWeek |-> {}, time |-> NOTIME,
      dateTime |-> t + d, reminderMinutesBefore |-> r, autoOpen |-> FALSE] :
        f \in FavoriteIds, d \in FormDelays, r \in FormReminders}
    \cup
    {[type |-> "recurring", favoriteId |-> f, daysOfWeek |-> d, time |-> tm,
      dateTime |-> NULL, reminderMinutesBefore |-> r, autoOpen |-> FALSE] :
        f \in FavoriteIds, d \in FormDays, tm \in FormTimes, r \in FormReminders}

\* App.saveSchedule() for a stored schedule: SchedulesModel.update(id, data).
EditSchedule ==
    /\ edits < MaxEdits
    /\ \E id \in DOMAIN schedules, data \in ScheduleInputs(now) :
          schedules' = [schedules EXCEPT ![id] = update(@, data, now)]
    /\ edits' = edits + 1
    /\ UNCHANGED <<input, output, menuPage, timers, now, ticks, favorites, snoozedSchedules, banner,
                   fired, polled, snoozeMark, orderVars>>

\* The favorites in storage: a favorite has no item (its order only opens
\* the store page) or a list of items.
FavoriteItems == {<<>>, [i \in 1..MaxItems |-> i]}

\* The scheduler's start: the schedules were created at StartTime, nothing
\* has fired, no automation has been requested.
Init ==
    /\ now = StartTime
    /\ ticks = 0
    /\ edits = 0
    /\ \E data \in [ScheduleIds -> ScheduleInputs(StartTime)] :
          schedules = [id \in ScheduleIds |-> create(id, data[id], StartTime)]
    /\ favorites \in [FavoriteIds -> {[items |-> <<1, 2>>]}]
    /\ snoozedSchedules = <<>>
    /\ banner = NULL
    /\ fired = EmptyBag
    /\ polled = TRUE
    /\ snoozeMark = <<>>
    /\ isAutomating = FALSE
    /\ calls = <<>>
    /\ history = <<>>
    /\ requests = <<>>
    /\ externalPosts = 0
    /\ input = NoInput
    /\ output = <<>>
    /\ menuPage = NoPage
    /\ timers = Started

Next ==
    \/ Tick
    \/ Poll
    \/ VisibilityChange
    \/ Snooze
    \/ Dismiss
    \/ ToggleSchedule
    \/ EditSchedule

Spec == Init /\ [][Next]_vars


\* ------------------------------------------ the automation run (client side)
\* The calls that have passed the isAutomating guard and not yet returned.
InFlight(cs) == {c \in DOMAIN cs : cs[c].pc \in {"checkServer", "awaitOrder"}}

\* The history entry of the catch block of triggerOrder.  call and actual
\* are not stored by the code: they tell which call wrote the entry and how
\* many items its run had really added.
failedEntry(c, call, message) ==
    [call |-> c, actual |-> NULL, favoriteId |-> call.favoriteId,
     items |-> favorites[call.favoriteId].items, itemsAdded |-> 0,
     status |-> "failed", triggeredBy |-> "manual", errorMessage |-> message]

\* A catch block that shows the error and logs nothing.
logFailedNothing(h, c, call, message) == h

\* The catch block of triggerOrder: OrderHistoryModel.add of a failed entry.
logFailed(h, c, call, message) == Append(h, failedEntry(c, call, message))

\* The status triggerOrder computes from the server's result:
\* itemsAdded = result.itemsAdded || items.length.
classify(resultItemsAdded, totalItems) ==
    LET itemsAdded == IF resultItemsAdded = 0 THEN totalItems ELSE resultItemsAdded
    IN [itemsAdded |-> itemsAdded,
        status |-> IF itemsAdded = 0 THEN "failed"
                   ELSE IF itemsAdded < totalItems THEN "partial"
                   ELSE "completed"]

\* The history entry of the success path of triggerOrder.
loggedEntry(c, call, response) ==
    LET items == favorites[call.favoriteId].items
        cls == classify(response.jsonItemsAdded, Len(items))
    IN [call |-> c, actual |-> response.itemsAdded, favoriteId |-> call.favoriteId,
        items |-> items, itemsAdded |-> cls.itemsAdded,
        status |-> cls.status, triggeredBy |-> "manual", errorMessage |-> ""]

\* ------------------------------------ the automation server (server/server.js)
\* The executions of automateOrder that have started and not yet returned.
ActiveRuns(rs) == {r \in DOMAIN rs : rs[r].pc \in {"launch", "items"}}

\* A URL is a record: present (storeUrl given), parsable (new URL does not
\* throw) and host, the hostname as its sequence of labels.
NoUrl == [present |-> FALSE, parsable |-> FALSE, host |-> <<>>]
UnparsableUrl == [present |-> TRUE, parsable |-> FALSE, host |-> <<>>]
UrlOf(host) == [present |-> TRUE, parsable |-> TRUE, host |-> host]

\* The host of the store pages: www.doordash.com.
DoorDashHost == <<"www", "doordash", "com">>
\* A host of another site.
OtherHost == <<"example", "com">>
\* A host of another site whose name contains doordash.com.
LookalikeHost == <<"doordash", "com", "evil", "example">>

\* The storeUrl of a favorite: App.saveFavorite accepts it only if
\* DoorDash.validateUrl finds the host www.doordash.com or doordash.com.
FavoriteStoreUrl == UrlOf(DoorDashHost)

\* The storeUrl values another client may post.
ExternalUrls ==
    {NoUrl, UnparsableUrl, UrlOf(DoorDashHost), UrlOf(OtherHost), UrlOf(LookalikeHost)}

\* str.includes('doordash.com') on a host: the labels doordash, com occur
\* next to each other somewhere in it.
includesDoorDash(host) ==
    \E i \in 1..(Len(host) - 1) : host[i] = "doordash" /\ host[i + 1] = "com"

\* DoorDash.validateUrl(url) of the client; storePath tells whether the
\* pathname of the URL includes '/store/'.
validateUrl(url, storePath) ==
    IF ~url.present THEN [isValid |-> FALSE, message |-> "URL is required"]
    ELSE IF ~url.parsable THEN [isValid |-> FALSE, message |-> "Invalid URL format"]
    ELSE IF url.host # <<"www", "doordash", "com">> /\ url.host # <<"doordash", "com">>
    THEN [isValid |-> FALSE, message |-> "URL must be from doordash.com"]
    ELSE IF ~storePath
    THEN [isValid |-> FALSE, message |-> "URL must be a DoorDash store page"]
    ELSE [isValid |-> TRUE, message |-> ""]

\* res.status(code).json({error}) or res.json({success, message, itemsAdded}).
respond(req, status, itemsAdded, error) ==
    [req EXCEPT !.pc = "responded", !.status = status,
                !.jsonItemsAdded = itemsAdded, !.error = error]

\* app.post('/api/order') up to the call of automateOrder: a request with
\* no storeUrl, an unparsable one or one whose host does not contain
\* doordash.com is answered 400; any other starts automateOrder.  browser,
\* page and attempts are not data of the server: they tell whether the run
\* has a browser session, where its navigation ended and which items it has
\* tried.
postOrder(url, items) ==
    LET req == [url |-> url, items |-> items, pc |-> "launch", next |-> 1,
                itemsAdded |-> 0, status |-> NULL, jsonItemsAdded |-> NULL,
                error |-> "", browser |-> "none", page |-> <<>>,
                attempts |-> <<>>]
    IN IF ~url.present THEN respond(req, 400, NULL, "Store URL is required")
       ELSE IF ~url.parsable THEN respond(req, 400, NULL, "Invalid URL format")
       ELSE IF ~includesDoorDash(url.host)
       THEN respond(req, 400, NULL, "Invalid DoorDash URL")
       ELSE req

\* The operator, or a banner's order button, calls DoorDash.triggerOrder.
OrderFavorite ==
    /\ Len(calls) < MaxCalls
    /\ \E f \in DOMAIN favorites :
          LET st == triggerOrder([isAutomating |-> isAutomating, calls |-> calls],
                                 f, "operator")
          IN /\ isAutomating' = st.isAutomating
             /\ calls' = st.calls
    /\ UNCHANGED <<input, output, menuPage, timers, now, ticks, edits, schedVars, favorites, history, requests,
                   externalPosts>>

\* checkServer resolves: with the server down the call throws; with it up
\* the order request of call c is sent and reaches the server as request c,
\* or fetch rejects and the call throws.
CheckServerDone ==
    \E c \in DOMAIN calls, outcome \in {"down", "up", "fetchFails"} :
        /\ calls[c].pc = "checkServer"
        /\ IF outcome # "up"
           THEN /\ history' =
                      logFailed(history, c, calls[c],
                                IF outcome = "down"
                                THEN "Automation server is not running. Start it with: cd server && npm start"
                                ELSE "Failed to fetch")
                /\ calls' = [calls EXCEPT ![c].pc = "done"]
                /\ isAutomating' = FALSE
                /\ UNCHANGED requests
           ELSE /\ requests' =
                      (c :> postOrder(FavoriteStoreUrl, favorites[calls[c].favoriteId].items))
                         @@ requests
                /\ calls' = [calls EXCEPT ![c].pc = "awaitOrder"]
                /\ UNCHANGED <<history, isAutomating>>
        /\ UNCHANGED <<input, output, menuPage, timers, now, ticks, edits, schedVars, favorites, externalPosts>>

\* A response handler with no finally block: the flag is cleared at the end
\* of the try block only, so an error leaves it set.
ReceiveResponseNoFinally ==
    \E c \in DOMAIN calls :
        /\ calls[c].pc = "awaitOrder"
        /\ requests[c].pc = "responded"
        /\ history' = IF requests[c].status # 200
                      THEN logFailed(history, c, calls[c], requests[c].error)
                      ELSE Append(history, loggedEntry(c, calls[c], requests[c]))
        /\ calls' = [calls EXCEPT ![c].pc = "done"]
        /\ isAutomating' = (requests[c].status # 200)
        /\ requests' = mapDelete(requests, c)
        /\ UNCHANGED <<input, output, menuPage, timers, now, ticks, edits, schedVars, favorites,
                       externalPosts>>

\* The server's response arrives: a status other than 200 throws into the
\* catch block; a 200 is classified and logged.  finally clears the flag.
ReceiveResponse ==
    \E c \in DOMAIN calls :
        /\ calls[c].pc = "awaitOrder"
        /\ requests[c].pc = "responded"
        /\ history' = IF requests[c].status # 200
                      THEN logFailed(history, c, calls[c], requests[c].error)
                      ELSE Append(history, loggedEntry(c, calls[c], requests[c]))
        /\ calls' = [calls EXCEPT ![c].pc = "done"]
        /\ isAutomating' = FALSE
        /\ requests' = mapDelete(requests, c)
        /\ UNCHANGED <<input, output, menuPage, timers, now, ticks, edits, schedVars, favorites, externalPosts>>

\* A second tab of the app orders a favorite of one item: its fetch reaches
\* the server as a request numbered below zero.
SecondTabPost ==
    /\ externalPosts < MaxExternalPosts
    /\ requests' = ((0 - (externalPosts + 1)) :> postOrder(FavoriteStoreUrl, <<1>>))
                      @@ requests
    /\ externalPosts' = externalPosts + 1
    /\ UNCHANGED <<input, output, menuPage, timers, now, ticks, edits, schedVars, favorites, isAutomating, calls, history>>

\* Any client (a script, another page) posts any storeUrl and items; its
\* request is numbered below zero.
ExternalPost ==
    /\ externalPosts < MaxPosts
    /\ \E url \in ExternalUrls, items \in FavoriteItems :
          requests' = ((0 - (externalPosts + 1)) :> postOrder(url, items)) @@ requests
    /\ externalPosts' = externalPosts + 1
    /\ UNCHANGED <<input, output, menuPage, timers, now, ticks, edits, schedVars, favorites, isAutomating, calls, history>>

\* The response to another client's request leaves the server.
ExternalResponse ==
    \E r \in DOMAIN requests :
        /\ r < 0
        /\ requests[r].pc = "responded"
        /\ requests' = mapDelete(requests, r)
        /\ UNCHANGED <<input, output, menuPage, timers, now, ticks, edits, schedVars, favorites, isAutomating, calls,
                       history, externalPosts>>

\* The pages a navigation to url may end on: the host asked for, or another
\* site the store page redirects to.
FinalPages(url) == {url.host, OtherHost}

\* An automateOrder that closes its browser when it returns or throws.
sessionClosedAtExit(browser) == IF browser = "open" THEN "closed" ELSE browser

\* What automateOrder does with the browser when it returns or throws:
\* nothing, the session stays as it is.
sessionAtExit(browser) == browser

\* automateOrder returns: the server answers 200 with
\* itemsAdded: result.itemsAdded || 0.
runReturns(req, itemsAdded) ==
    respond([req EXCEPT !.browser = sessionAtExit(@)], 200, itemsAdded, "")

\* automateOrder throws: the catch block rethrows and the server answers 500
\* with the error's message.
runThrows(req, message) ==
    respond([req EXCEPT !.browser = sessionAtExit(@)], 500, NULL, message)

\* automateOrder from the launch of the browser to the start of the item
\* loop.  puppeteer.launch may fail; the navigation ends on some page, and a
\* page whose URL does not contain doordash.com throws; a login prompt that
\* stays for 120 s throws; with no items the run returns.
openStore(req, launched, page, loginPrompt) ==
    IF ~launched
    THEN runThrows(req, "Failed to launch the browser process")
    ELSE LET opened == [req EXCEPT !.browser = "open", !.page = page]
         IN IF ~includesDoorDash(page)
            THEN runThrows(opened, "Navigation failed - not on DoorDash")
            ELSE IF loginPrompt = "stays"
            THEN runThrows(opened, "Waiting for selector failed: 120000ms exceeded")
            ELSE IF Len(opened.items) = 0
            THEN runReturns(opened, 0)
            ELSE [opened EXCEPT !.pc = "items"]

\* A run that was started opens its store page.
ServerOpenStore ==
    \E r \in DOMAIN requests :
        /\ requests[r].pc = "launch"
        /\ \E opened \in {openStore(requests[r], launched, page, loginPrompt) :
                             launched \in BOOLEAN,
                             page \in FinalPages(requests[r].url),
                             loginPrompt \in {"absent", "disappears", "stays"}} :
              requests' = [requests EXCEPT ![r] = opened]
        /\ UNCHANGED <<input, output, menuPage, timers, now, ticks, edits, schedVars, favorites, isAutomating,
                       calls, history, externalPosts>>

\* A tryAddItem whose try block has no catch.
tryAddItemNoCatch(search, scroll) ==
    IF search = "added" THEN "added"
    ELSE IF search = "throws" THEN "threw"
    ELSE IF scroll = "added" THEN "added"
    ELSE IF scroll = "throws" THEN "threw"
    ELSE "notAdded"

\* tryAddItem(page, itemName): the search strategy, then the scroll strategy;
\* an error of either is caught and the item counts as not added.
tryAddItem(search, scroll) ==
    IF search = "added" THEN "added"
    ELSE IF search = "throws" THEN "notAdded"
    ELSE IF scroll = "added" THEN "added"
    ELSE "notAdded"

\* One iteration of the item loop of automateOrder on the next item of the
\* list; after the last item the run returns.  An error out of tryAddItem
\* would leave the loop through the catch block of automateOrder.
addItem(req, result) ==
    LET count == req.itemsAdded + (IF result = "added" THEN 1 ELSE 0)
        counted == [req EXCEPT !.itemsAdded = count, !.next = @ + 1,
                               !.attempts = Append(@, <<req.items[req.next], result>>)]
    IN IF result = "threw" THEN runThrows(counted, "Error adding item")
       ELSE IF counted.next > Len(counted.items) THEN runReturns(counted, count)
       ELSE counted

\* The outcomes of one strategy of tryAddItem.
StrategyOutcomes == {"added", "notFound", "throws"}

\* A run in its item loop tries its next item.
ServerAddItem ==
    \E r \in DOMAIN requests :
        /\ requests[r].pc = "items"
        /\ \E result \in {tryAddItem(search, scroll) :
                             search \in StrategyOutcomes, scroll \in StrategyOutcomes} :
              requests' = [requests EXCEPT ![r] = addItem(@, result)]
        /\ UNCHANGED <<input, output, menuPage, timers, now, ticks, edits, schedVars, favorites, isAutomating, calls,
                       history, externalPosts>>

\* The app with favorites and no schedule: nothing has been requested.
OrderInit ==
    /\ now = StartTime
    /\ ticks = 0
    /\ edits = 0
    /\ schedules = <<>>
    /\ favorites \in [FavoriteIds -> {[items |-> items] : items \in FavoriteItems}]
    /\ snoozedSchedules = <<>>
    /\ banner = NULL
    /\ fired = EmptyBag
    /\ polled = TRUE
    /\ snoozeMark = <<>>
    /\ isAutomating = FALSE
    /\ calls = <<>>
    /\ history = <<>>
    /\ requests = <<>>
    /\ externalPosts = 0
    /\ input = NoInput
    /\ output = <<>>
    /\ menuPage = NoPage
    /\ timers = Started

OrderNext ==
    \/ OrderFavorite
    \/ CheckServerDone
    \/ ReceiveResponse
    \/ SecondTabPost
    \/ ExternalResponse
    \/ ServerOpenStore
    \/ ServerAddItem

OrderSpec == OrderInit /\ [][OrderNext]_vars

\* The automation server alone, with any clients.
ServerNext ==
    \/ ExternalPost
    \/ ExternalResponse
    \/ ServerOpenStore
    \/ ServerAddItem

ServerSpec == OrderInit /\ [][ServerNext]_vars

\* ------------------------------------------- the scheduler with two schedules
\* The ids of two schedules in storage.
TwoIds == {1, 2}

\* The form data of a schedule with no reminder offset.
TwoInputs(t) == {x \in ScheduleInputs(t) : x.reminderMinutesBefore = 0}

\* The state after App.init with the schedules given, created at StartTime.
InitWith(created) ==
    /\ now = StartTime
    /\ ticks = 0
    /\ edits = 0
    /\ schedules = created
    /\ favorites \in [FavoriteIds -> {[items |-> <<1>>]}]
    /\ snoozedSchedules = <<>>
    /\ banner = NULL
    /\ fired = EmptyBag
    /\ polled = TRUE
    /\ snoozeMark = <<>>
    /\ isAutomating = FALSE
    /\ calls = <<>>
    /\ history = <<>>
    /\ requests = <<>>
    /\ externalPosts = 0
    /\ input = NoInput
    /\ output = <<>>
    /\ menuPage = NoPage
    /\ timers = Started

\* The scheduler's start with two schedules that only remind.
TwoInit ==
    \E data \in [TwoIds -> TwoInputs(StartTime)] :
        InitWith([id \in TwoIds |-> create(id, data[id], StartTime)])

TwoNext ==
    \/ Tick
    \/ Poll
    \/ VisibilityChange
    \/ Snooze
    \/ Dismiss
    \/ ToggleSchedule

TwoSpec == TwoInit /\ [][TwoNext]_vars

\* ------------------------------------- the scheduler with automatic orders
\* The form data of a schedule that may order by itself: a one-time target
\* 20 s ahead or 10:05 on Sundays and Mondays, autoOpen checked or not.
AutoInputs(t) ==
    {[d EXCEPT !.autoOpen = a] :
        d \in {x \in TwoInputs(t) : x.dateTime = t + 20 * SECOND \/ x.daysOfWeek = {0, 1}},
        a \in BOOLEAN}

\* The scheduler's start with two schedules, each with or without autoOpen.
AutoInit ==
    \E data \in [TwoIds -> AutoInputs(StartTime)] :
        InitWith([id \in TwoIds |-> create(id, data[id], StartTime)])

AutoNext ==
    \/ Tick
    \/ Poll
    \/ VisibilityChange
    \/ CheckServerDone
    \/ ReceiveResponse
    \/ ServerOpenStore
    \/ ServerAddItem

AutoSpec == AutoInit /\ [][AutoNext]_vars

\* ------------------------------------- the scheduler with a trigger button
\* The operator may order a schedule's favorite at any moment; the server is
\* asked whether it is up and a call goes no further.
ManualNext ==
    \/ Tick
    \/ Poll
    \/ Snooze
    \/ ToggleSchedule
    \/ ManualTrigger
    \/ CheckServerDone

ManualSpec == Init /\ [][ManualNext]_vars

\* ------------------------------------------- calculateNextTrigger on its own
\* The instants of the calls: Sunday 10:00 and 13:00, Monday 12:00,
\* Wednesday 13:00, Saturday 23:50.
CalcNows ==
    {StartTime, 13 * HOUR, DAY + 12 * HOUR, 3 * DAY + 13 * HOUR,
     6 * DAY + 23 * HOUR + 50 * MINUTE}

\* data.daysOfWeek, data.time and data.reminderMinutesBefore of the calls.
CalcDays == {{}, {0}, {6}, {1, 3}, 0..6}
CalcTimes == {NOTIME, <<12, 0>>, <<0, 10>>}
CalcReminders == {0, 15}

\* data.dateTime of a one-time call at instant t: missing, or this far from t.
CalcTargets(t) ==
    {NULL} \cup {t + d : d \in {0 - MINUTE, 0, 1, 15 * MINUTE, 15 * MINUTE + 1, HOUR}}

\* The data of a call of calculateNextTrigger at instant t.
CalcInputs(t) ==
    {[type |-> "once", daysOfWeek |-> {}, time |-> NOTIME, dateTime |-> T,
      reminderMinutesBefore |-> r] : T \in CalcTargets(t), r \in CalcReminders}
    \cup
    {[type |-> "recurring", daysOfWeek |-> d, time |-> tm, dateTime |-> NULL,
      reminderMinutesBefore |-> r] :
        d \in CalcDays, tm \in CalcTimes, r \in CalcReminders}

\* The app with nothing stored, at instant t, about to call a function with
\* the arguments given.
CallInit(t, arguments) ==
    /\ now = t
    /\ ticks = 0
    /\ edits = 0
    /\ schedules = <<>>
    /\ favorites = [f \in FavoriteIds |-> [items |-> <<>>]]
    /\ snoozedSchedules = <<>>
    /\ banner = NULL
    /\ fired = EmptyBag
    /\ polled = TRUE
    /\ snoozeMark = <<>>
    /\ isAutomating = FALSE
    /\ calls = <<>>
    /\ history = <<>>
    /\ requests = <<>>
    /\ externalPosts = 0
    /\ input = arguments
    /\ output = <<>>
    /\ menuPage = NoPage
    /\ timers = Started

CalcInit == \E t \in CalcNows : \E data \in CalcInputs(t) : CallInit(t, data)

\* SchedulesModel.calculateNextTrigger(data) is called; the clock stands.
Calculate ==
    /\ Len(output) < MaxApplications
    /\ output' = Append(output, calculateNextTrigger(input, now))
    /\ UNCHANGED <<input, menuPage, timers, now, ticks, edits, schedVars, favorites, orderVars>>

CalcSpec == CalcInit /\ [][Calculate]_vars

\* ------------------------------------ fuzzyMatch (puppeteer/autoorder.js)
\* A string is the sequence of its characters.
UpperCase ==
    <<"A", "B", "C", "D", "E", "F", "G", "H", "I", "J", "K", "L", "M",
      "N", "O", "P", "Q", "R", "S", "T", "U", "V", "W", "X", "Y", "Z">>
LowerCase ==
    <<"a", "b", "c", "d", "e", "f", "g", "h", "i", "j", "k", "l", "m",
      "n", "o", "p", "q", "r", "s", "t", "u", "v", "w", "x", "y", "z">>
Digits == {"0", "1", "2", "3", "4", "5", "6", "7", "8", "9"}

\* A character of the class \s.
isWhitespace(c) == c \in {" ", "\t", "\n"}

\* A character of the class \w: a letter, a digit or the underscore.
isWordChar(c) ==
    \/ \E i \in 1..26 : c = UpperCase[i] \/ c = LowerCase[i]
    \/ c \in Digits
    \/ c = "_"

\* String.prototype.toLowerCase
toLowerCase(s) ==
    [i \in 1..Len(s) |->
        IF \E k \in 1..26 : UpperCase[k] = s[i]
        THEN LowerCase[CHOOSE k \in 1..26 : UpperCase[k] = s[i]]
        ELSE s[i]]

\* String.prototype.trim
trim(s) ==
    LET inked == {i \in 1..Len(s) : ~isWhitespace(s[i])}
    IN IF inked = {} THEN <<>>
       ELSE SubSeq(s, Min(inked), CHOOSE i \in inked : \A j \in inked : j <= i)

\* str.replace(/[^\w\s]/g, '')
removeNonWord(s) ==
    LET kept(c) == isWordChar(c) \/ isWhitespace(c)
    IN SelectSeq(s, kept)

\* str.replace(/\s+/g, ' ')
RECURSIVE collapseWhitespace(_)
collapseWhitespace(s) ==
    IF s = <<>> THEN <<>>
    ELSE IF ~isWhitespace(s[1]) THEN <<s[1]>> \o collapseWhitespace(Tail(s))
    ELSE IF Len(s) > 1 /\ isWhitespace(s[2]) THEN collapseWhitespace(Tail(s))
    ELSE <<" ">> \o collapseWhitespace(Tail(s))

\* normalize of fuzzyMatch:
\* str.toLowerCase().trim().replace(/[^\w\s]/g, '').replace(/\s+/g, ' ')
normalize(str) == collapseWhitespace(removeNonWord(trim(toLowerCase(str))))

\* String.prototype.includes
includes(s, sub) ==
    \E i \in 0..(Len(s) - Len(sub)) : SubSeq(s, i + 1, i + Len(sub)) = sub

\* str.split(' '): the pieces between single spaces, empty ones included.
RECURSIVE split(_)
split(s) ==
    LET spaces == {i \in 1..Len(s) : s[i] = " "}
    IN IF spaces = {} THEN <<s>>
       ELSE <<SubSeq(s, 1, Min(spaces) - 1)>> \o split(SubSeq(s, Min(spaces) + 1, Len(s)))

\* fuzzyMatch(menuItemName, searchName); matchCount >= length * 0.7 is
\* written in tenths.
fuzzyMatch(menuItemName, searchName) ==
    IF menuItemName = <<>> \/ searchName = <<>> THEN FALSE
    ELSE LET menuNorm == normalize(menuItemName)
             searchNorm == normalize(searchName)
             longer(w) == Len(w) > 2
             searchWords == SelectSeq(split(searchNorm), longer)
             menuWords == split(menuNorm)
             matchCount ==
                 Cardinality({i \in DOMAIN searchWords :
                     \E j \in DOMAIN menuWords :
                         \/ includes(menuWords[j], searchWords[i])
                         \/ includes(searchWords[i], menuWords[j])})
         IN IF menuNorm = searchNorm THEN TRUE
            ELSE IF includes(menuNorm, searchNorm) \/ includes(searchNorm, menuNorm)
            THEN TRUE
            ELSE IF Len(searchWords) > 0
            THEN matchCount * 10 >= Len(searchWords) * 7
            ELSE FALSE

\* The pieces names are generated from: two words, a space and a mark.
Pieces == {<<"A", "b", "c">>, <<"x", "y", "z">>, <<" ">>, <<"!">>}

\* The names of at most n pieces.
RECURSIVE NamesOf(_)
NamesOf(n) ==
    IF n = 0 THEN {<<>>}
    ELSE LET shorter == NamesOf(n - 1)
         IN shorter \cup {s \o piece : s \in shorter, piece \in Pieces}

\* Names of menu items and of searched items, written out: Chicken Burrito
\* Bowl, Chicken Bowl, Chicken Bowl!, Salad, Burger.
ChickenBurritoBowl ==
    <<"C", "h", "i", "c", "k", "e", "n", " ", "B", "u", "r", "r", "i", "t", "o", " ",
      "B", "o", "w", "l">>
ChickenBowl == <<"C", "h", "i", "c", "k", "e", "n", " ", "B", "o", "w", "l">>
ChickenBowlMark == ChickenBowl \o <<"!">>
Salad == <<"S", "a", "l", "a", "d">>
Burger == <<"B", "u", "r", "g", "e", "r">>

\* The names a menu shows (the text of a name element) and the names of the
\* items of an order.
Names ==
    NamesOf(MaxPieces) \cup {ChickenBurritoBowl, ChickenBowl, ChickenBowlMark, Salad, Burger}

\* Names with an underscore, a tab, a digit.
OtherNames == {<<"a", "_", "b">>, <<"a", "\t", " ", "b">>, <<"N", "o", "7">>}

\* The automation server about to compare a menu item's name with the name
\* of an item of the order, or to normalize a name.
MatchInit ==
    \/ \E menuItemName \in Names, searchName \in Names :
          CallInit(StartTime, [fn |-> "fuzzyMatch", menuItemName |-> menuItemName,
                               searchName |-> searchName])
    \/ \E str \in Names \cup OtherNames :
          CallInit(StartTime, [fn |-> "normalize", str |-> str])

\* fuzzyMatch(name, itemName) is called.
Match ==
    /\ input.fn = "fuzzyMatch"
    /\ Len(output) < MaxApplications
    /\ output' = Append(output, fuzzyMatch(input.menuItemName, input.searchName))
    /\ UNCHANGED <<input, menuPage, timers, now, ticks, edits, schedVars, favorites, orderVars>>

\* normalize(str) is called.
Normalize ==
    /\ input.fn = "normalize"
    /\ Len(output) < MaxApplications
    /\ output' = Append(output, normalize(input.str))
    /\ UNCHANGED <<input, menuPage, timers, now, ticks, edits, schedVars, favorites, orderVars>>

MatchNext ==
    \/ Match
    \/ Normalize

MatchSpec == MatchInit /\ [][MatchNext]_vars

\* --------------------------------------- the scheduler with a punctual timer
\* Scheduler.CHECK_INTERVAL
CHECK_INTERVAL == 30000

\* The form data of the schedules: a one-time target 10, 30, 40 or 60 s
\* ahead, or 10:01 on Sundays and Mondays.
PunctualInputs(t) ==
    {[type |-> "once", favoriteId |-> f, daysOfWeek |-> {}, time |-> NOTIME,
      dateTime |-> t + d, reminderMinutesBefore |-> 0, autoOpen |-> FALSE] :
        f \in FavoriteIds, d \in {10 * SECOND, 30 * SECOND, 40 * SECOND, 60 * SECOND}}
    \cup
    {[type |-> "recurring", favoriteId |-> f, daysOfWeek |-> {0, 1}, time |-> <<10, 1>>,
      dateTime |-> NULL, reminderMinutesBefore |-> 0, autoOpen |-> FALSE] :
        f \in FavoriteIds}

\* Scheduler.init right after two schedules were created: startPolling has
\* made its immediate check.
PunctualInit ==
    \E data \in [TwoIds -> PunctualInputs(StartTime)] :
        InitWith([id \in TwoIds |-> create(id, data[id], StartTime)])

\* The interval timer fires CHECK_INTERVAL after the previous check:
\* checkSchedules().
IntervalFires ==
    /\ ticks < MaxPolls
    /\ now' = now + CHECK_INTERVAL
    /\ ticks' = ticks + 1
    /\ Store(checkSchedules(scanState, now + CHECK_INTERVAL))
    /\ polled' = TRUE
    /\ UNCHANGED <<input, output, menuPage, timers, edits, favorites, snoozeMark, history, requests,
                   externalPosts>>

\* The host stays active and the timer is on time; the operator may toggle
\* schedules and dismiss banners between two checks.
PunctualNext ==
    \/ IntervalFires
    \/ ToggleSchedule
    \/ Dismiss

PunctualSpec == PunctualInit /\ [][PunctualNext]_vars

\* ------------------------------------- the scheduler left to its timers
\* The operator edits and toggles nothing.  The interval timer of
\* startPolling keeps firing and the clock keeps running (as far as the
\* model's clock goes); visibility events and banner clicks may or may not
\* come.
TimerNext ==
    \/ Tick
    \/ Poll
    \/ VisibilityChange
    \/ Snooze
    \/ Dismiss

TimerSpec == Init /\ [][TimerNext]_vars /\ WF_vars(Tick) /\ WF_vars(Poll)

\* --------------------------------- the scheduler after an import of favorites
\* Storage.importData(data) with data.favorites and no data.schedules: the
\* stored favorites are replaced by the imported ones, the schedules stay.
ImportFavorites ==
    /\ \E kept \in SUBSET DOMAIN favorites :
          /\ kept # DOMAIN favorites
          /\ favorites' = [f \in kept |-> favorites[f]]
    /\ UNCHANGED <<input, output, menuPage, timers, now, ticks, edits, schedVars, orderVars>>

ImportNext ==
    \/ Tick
    \/ Poll
    \/ VisibilityChange
    \/ Snooze
    \/ EditSchedule
    \/ ImportFavorites

ImportSpec == Init /\ [][ImportNext]_vars

\* ------------------------------------ startPolling and stopPolling called
\* A startPolling that sets a new interval without clearing the old one.
StartPollingNoClear ==
    /\ timers.made <= MaxStarts
    /\ LET st == checkSchedules(scanState, now)
       IN /\ Store(st)
          /\ timers' = [intervalId |-> timers.made + 1,
                        active |-> timers.active \cup {timers.made + 1},
                        made |-> timers.made + 1,
                        last |-> "start",
                        immediate |-> BagCardinality(st.fired) - BagCardinality(fired)]
    /\ polled' = TRUE
    /\ UNCHANGED <<input, output, menuPage, now, ticks, edits, favorites, snoozeMark,
                   history, requests, externalPosts>>

\* Scheduler.startPolling(): clearInterval of the timer in intervalId if
\* there is one, setInterval, and checkSchedules() at once.
StartPolling ==
    /\ timers.made <= MaxStarts
    /\ LET st == checkSchedules(scanState, now)
       IN /\ Store(st)
          /\ timers' = [intervalId |-> timers.made + 1,
                        active |-> (IF timers.intervalId # NULL
                                    THEN timers.active \ {timers.intervalId}
                                    ELSE timers.active) \cup {timers.made + 1},
                        made |-> timers.made + 1,
                        last |-> "start",
                        immediate |-> BagCardinality(st.fired) - BagCardinality(fired)]
    /\ polled' = TRUE
    /\ UNCHANGED <<input, output, menuPage, now, ticks, edits, favorites, snoozeMark,
                   history, requests, externalPosts>>

\* Scheduler.stopPolling(): clearInterval of the timer in intervalId, if
\* there is one, and intervalId = null.
StopPolling ==
    /\ timers' = IF timers.intervalId # NULL
                 THEN [timers EXCEPT !.active = @ \ {timers.intervalId},
                                     !.intervalId = NULL, !.last = "stop"]
                 ELSE [timers EXCEPT !.last = "stop"]
    /\ UNCHANGED <<input, output, menuPage, now, ticks, edits, schedVars, favorites,
                   orderVars>>

\* An interval timer that runs fires: checkSchedules().
TimerFires ==
    /\ timers.active # {}
    /\ Poll

PollingNext ==
    \/ Tick
    \/ TimerFires
    \/ StartPolling
    \/ StopPolling

PollingSpec == Init /\ [][PollingNext]_vars

\* ------------------------------- item resolution (puppeteer/autoorder.js)
\* The upper limit of the reveal loop of tryScrollAndFind (i < 5).
ScrollSteps == 5

\* What the detail view of a clicked menu entry can be: it holds a button
\* whose text says "add to cart", "add to order" or "add item"; it holds
\* buttons but none with such a text; it holds no button; it does not appear
\* within TIMEOUTS.MODAL_OPEN.
Views == {"affirm", "controls", "bare", "absent"}

\* What a menu entry can be when it is inspected: it has no name element; its
\* name does not match the item (fuzzyMatch is false); reading its name
\* throws; its name matches and clicking it throws (the element is stale);
\* its name matches and clicking it leads to one of the Views.
Kinds == {"unnamed", "other", "throwsInspect", "throwsOpen"} \cup Views

\* page.evaluateHandle(() => buttons.find(...)): Puppeteer resolves to a
\* handle object whatever the function returns; the handle is an
\* ElementHandle, which has click(), only if find() returned a button, and a
\* plain JSHandle of undefined otherwise.  Every object is truthy.
evaluateHandle(view) == [truthy |-> TRUE, element |-> view = "affirm"]

\* clickAddToCart(page): which control it clicked, whether it closed the
\* view, and the boolean it returns.
clickAddToCart(view) ==
    LET caught == [view |-> view, clicked |-> "none", closed |-> "Escape",
                   added |-> FALSE]
    IN IF view = "absent"
       THEN caught                         \* waitForSelector throws
       ELSE LET addButton == evaluateHandle(view)
            IN IF addButton.truthy
               THEN IF addButton.element
                    THEN [view |-> view, clicked |-> "affirm", closed |-> "no",
                          added |-> TRUE]
                    ELSE caught            \* addButton.click is not a function
               ELSE IF view = "controls"
               THEN [view |-> view, clicked |-> "last", closed |-> "no",
                     added |-> TRUE]
               ELSE [view |-> view, clicked |-> "none", closed |-> "button",
                     added |-> FALSE]

\* No clickAddToCart call has been made for the item.
NoCart == [view |-> "none", clicked |-> "none", closed |-> "no", added |-> FALSE]

\* tryAddItem(page, itemName) returns result: automateOrder counts it.
Return(result) ==
    /\ menuPage' = [menuPage EXCEPT !.pc = "done"]
    /\ output' = Append(output, result)

\* The loop of automateOrder over the items calls tryAddItem for the next
\* item, which calls trySearchAndAdd.
TryAddItem ==
    /\ Len(output) < input.items
    /\ menuPage.pc \in {"loaded", "done"}
    /\ menuPage' = [item |-> Len(output) + 1, pc |-> "search",
                field |-> menuPage.field,
                n |-> 0, idx |-> 0, step |-> 0, last |-> "none",
                searched |-> "no", adds |-> 0, cart |-> NoCart]
    /\ UNCHANGED <<input, output, timers, now, ticks, edits, schedVars, favorites, orderVars>>

\* trySearchAndAdd up to the query for the results: with no search input it
\* returns false; otherwise it types the item name and reads the entries.
SearchType ==
    /\ menuPage.pc = "search"
    /\ \/ menuPage' = [menuPage EXCEPT !.pc = "scroll", !.searched = "absent"]
       \/ \E n \in 0..MaxCandidates :
             menuPage' = [menuPage EXCEPT !.pc = "results", !.field = "query",
                                  !.n = n, !.idx = 0, !.last = "none"]
    /\ UNCHANGED <<input, output, timers, now, ticks, edits, schedVars, favorites, orderVars>>

\* A search that goes on to the scroll strategy even after adding the item.
SearchInspectGoesOn ==
    /\ menuPage.pc = "results" /\ menuPage.idx < menuPage.n
    /\ \E kind \in Kinds :
          IF kind \in {"unnamed", "other"}
          THEN /\ menuPage' = [menuPage EXCEPT !.idx = @ + 1, !.last = kind]
               /\ UNCHANGED output
          ELSE IF kind \in {"throwsInspect", "throwsOpen"}
          THEN /\ menuPage' = [menuPage EXCEPT !.pc = "scroll", !.searched = "threw",
                                       !.last = kind]
               /\ UNCHANGED output
          ELSE LET cart == clickAddToCart(kind)
               IN IF cart.added
                  THEN /\ menuPage' = [menuPage EXCEPT !.field = "empty", !.last = kind,
                                     !.cart = cart, !.adds = @ + 1,
                                     !.searched = "added", !.pc = "scroll"]
                       /\ UNCHANGED output
                  ELSE /\ menuPage' = [menuPage EXCEPT !.idx = @ + 1, !.last = kind,
                                               !.cart = cart]
                       /\ UNCHANGED output
    /\ UNCHANGED <<input, timers, now, ticks, edits, schedVars, favorites, orderVars>>

\* One round of the loop of trySearchAndAdd over the entries: an error goes
\* to the catch block, which returns false; a matching entry is clicked and
\* clickAddToCart called; when that adds the item, the field is cleared and
\* tryAddItem returns true.
SearchInspect ==
    /\ menuPage.pc = "results" /\ menuPage.idx < menuPage.n
    /\ \E kind \in Kinds :
          IF kind \in {"unnamed", "other"}
          THEN /\ menuPage' = [menuPage EXCEPT !.idx = @ + 1, !.last = kind]
               /\ UNCHANGED output
          ELSE IF kind \in {"throwsInspect", "throwsOpen"}
          THEN /\ menuPage' = [menuPage EXCEPT !.pc = "scroll", !.searched = "threw",
                                       !.last = kind]
               /\ UNCHANGED output
          ELSE LET cart == clickAddToCart(kind)
               IN IF cart.added
                  THEN /\ menuPage' = [menuPage EXCEPT !.field = "empty", !.last = kind,
                                     !.cart = cart, !.adds = @ + 1,
                                     !.searched = "added", !.pc = "done"]
                       /\ output' = Append(output, TRUE)
                  ELSE /\ menuPage' = [menuPage EXCEPT !.idx = @ + 1, !.last = kind,
                                               !.cart = cart]
                       /\ UNCHANGED output
    /\ UNCHANGED <<input, timers, now, ticks, edits, schedVars, favorites, orderVars>>

\* The end of the loop of trySearchAndAdd: clear the field, return false.
SearchEnd ==
    /\ menuPage.pc = "results" /\ menuPage.idx = menuPage.n
    /\ menuPage' = [menuPage EXCEPT !.pc = "scroll", !.field = "empty",
                            !.searched = "failed"]
    /\ UNCHANGED <<input, output, timers, now, ticks, edits, schedVars, favorites, orderVars>>

\* The head of the reveal loop of tryScrollAndFind: while i < 5 it reads the
\* entries of the listing; after that it returns false.
ScrollQuery ==
    /\ menuPage.pc = "scroll"
    /\ IF menuPage.step < ScrollSteps
       THEN /\ \E n \in 0..MaxCandidates :
                  menuPage' = [menuPage EXCEPT !.pc = "listing", !.n = n, !.idx = 0,
                                       !.last = "none"]
            /\ UNCHANGED output
       ELSE Return(FALSE)
    /\ UNCHANGED <<input, timers, now, ticks, edits, schedVars, favorites, orderVars>>

\* A scroll strategy that returns false at an entry it cannot open.
ScrollInspectGivesUp ==
    /\ menuPage.pc = "listing" /\ menuPage.idx < menuPage.n
    /\ \E kind \in Kinds :
          IF kind \in {"unnamed", "other", "throwsInspect"}
          THEN /\ menuPage' = [menuPage EXCEPT !.idx = @ + 1, !.last = kind]
               /\ UNCHANGED output
          ELSE IF kind = "throwsOpen"
          THEN /\ menuPage' = [menuPage EXCEPT !.last = kind, !.pc = "done"]
               /\ output' = Append(output, FALSE)
          ELSE LET cart == clickAddToCart(kind)
               IN /\ menuPage' = [menuPage EXCEPT !.last = kind, !.cart = cart,
                                !.adds = @ + (IF cart.added THEN 1 ELSE 0),
                                !.pc = "done"]
                  /\ output' = Append(output, cart.added)
    /\ UNCHANGED <<input, timers, now, ticks, edits, schedVars, favorites, orderVars>>

\* One round of the inner loop of tryScrollAndFind: an error at an entry is
\* caught and the loop goes on; a matching entry is clicked and what
\* clickAddToCart returns is returned.
ScrollInspect ==
    /\ menuPage.pc = "listing" /\ menuPage.idx < menuPage.n
    /\ \E kind \in Kinds :
          IF kind \in {"unnamed", "other", "throwsInspect", "throwsOpen"}
          THEN /\ menuPage' = [menuPage EXCEPT !.idx = @ + 1, !.last = kind]
               /\ UNCHANGED output
          ELSE LET cart == clickAddToCart(kind)
               IN /\ menuPage' = [menuPage EXCEPT !.last = kind, !.cart = cart,
                                !.adds = @ + (IF cart.added THEN 1 ELSE 0),
                                !.pc = "done"]
                  /\ output' = Append(output, cart.added)
    /\ UNCHANGED <<input, timers, now, ticks, edits, schedVars, favorites, orderVars>>

\* The end of the inner loop: window.scrollBy(0, 500) and i++.
ScrollReveal ==
    /\ menuPage.pc = "listing" /\ menuPage.idx = menuPage.n
    /\ menuPage' = [menuPage EXCEPT !.pc = "scroll", !.step = @ + 1]
    /\ UNCHANGED <<input, output, timers, now, ticks, edits, schedVars, favorites, orderVars>>

\* automateOrder has loaded the store and is about to add 1..MaxItems items.
ItemInit == \E k \in 1..MaxItems : CallInit(StartTime, [items |-> k])

ItemNext ==
    \/ TryAddItem
    \/ SearchType
    \/ SearchInspect
    \/ SearchEnd
    \/ ScrollQuery
    \/ ScrollInspect
    \/ ScrollReveal

\* Every await of the run completes: a step that can be taken is taken.
ItemSpec == ItemInit /\ [][ItemNext]_vars /\ WF_vars(ItemNext)

\* ---------------------------------------------------- the scheduler's claims
\* How often schedule id has been fired for trigger instant T.
FireCount(id, T) ==
    CopiesIn([id |-> id, instant |-> T, missed |-> FALSE], fired)
      + CopiesIn([id |-> id, instant |-> T, missed |-> TRUE], fired)

\* The triggerSchedule calls that complete in the current step.
NewlyFired == {e \in BagToSet(fired') : CopiesIn(e, fired') > CopiesIn(e, fired)}

\* C1: over every interleaving of poll scans, missed-trigger scans,
\* visibility events, edits and clock advances, a schedule is fired at most
\* once for any one trigger instant (value of nextTriggerAt).
C1_AtMostOncePerInstant ==
    \A e \in BagToSet(fired) : FireCount(e.id, e.instant) <= 1

\* C1 happens: the same schedule has been fired for two different instants.
C1_Witness ==
    \E e1, e2 \in BagToSet(fired) : e1.id = e2.id /\ e1.instant # e2.instant

\* C2: right after a recurring schedule with a non-empty weekday set fires,
\* its nextTriggerAt is non-null and strictly later than its new
\* lastTriggeredAt.
C2_RecurringRecomputedLater ==
    [][\A e \in NewlyFired :
          (schedules[e.id].type = "recurring" /\ schedules[e.id].daysOfWeek # {})
          => /\ schedules'[e.id].nextTriggerAt # NULL
             /\ schedules'[e.id].nextTriggerAt > schedules'[e.id].lastTriggeredAt]_vars

\* C7: a schedule with an active snooze entry (resume-at > now) is not fired,
\* neither by polling nor by missed-trigger recovery.
C7_SnoozedNotFired ==
    [][\A e \in NewlyFired :
          ~(e.id \in DOMAIN snoozedSchedules /\ snoozedSchedules[e.id] > now)]_vars

\* C8: snooze delays the reminder rather than dropping it: once the snooze
\* period of a schedule has elapsed and the poller has run, the schedule's
\* reminder has been presented again since it was snoozed.
C8_SnoozedReminderReturns ==
    \A id \in DOMAIN snoozeMark :
        (polled /\ now >= snoozeMark[id].until) => FiresOf(id) > snoozeMark[id].fires

\* C9: right after a one-time schedule fires it is disabled with
\* nextTriggerAt null; from then on, in every step that is no edit (edits
\* unchanged), nextTriggerAt stays null (also through toggles) and the
\* schedule is not fired again.
C9_OnceFiresOnce ==
    [][/\ \A e \in NewlyFired :
             schedules[e.id].type = "once"
             => /\ ~schedules'[e.id].enabled
                /\ schedules'[e.id].nextTriggerAt = NULL
       /\ \A id \in DOMAIN schedules :
             (/\ schedules[id].type = "once"
              /\ schedules[id].lastTriggeredAt # NULL
              /\ schedules[id].nextTriggerAt = NULL
              /\ edits' = edits)
             => /\ schedules'[id].nextTriggerAt = NULL
                /\ ~\E e \in NewlyFired : e.id = id]_vars

\* C9 happens: a one-time schedule has fired and was enabled again by a
\* toggle, its nextTriggerAt still null.
C9_Witness ==
    \E id \in DOMAIN schedules :
        /\ schedules[id].type = "once"
        /\ schedules[id].lastTriggeredAt # NULL
        /\ schedules[id].enabled
        /\ schedules[id].nextTriggerAt = NULL

\* Due, as C10 states it, for schedule id in the current state.
C10_Due(id) ==
    LET s == schedules[id]
    IN /\ s.enabled
       /\ s.nextTriggerAt # NULL
       /\ s.nextTriggerAt <= now
       /\ s.nextTriggerAt > now - 30 * 1000
       /\ (s.lastTriggeredAt = NULL \/ s.lastTriggeredAt < s.nextTriggerAt)
       /\ ~(id \in DOMAIN snoozedSchedules /\ snoozedSchedules[id] > now)

\* C10: the poller fires a schedule only if it is due (enabled, nextTriggerAt
\* non-null and in (now - 30 s, now], lastTriggeredAt null or earlier than
\* nextTriggerAt, no snooze entry with resume-at > now), for the instant
\* nextTriggerAt; and once the poller has run no schedule whose favorite
\* exists is left due.
C10_PollerFiresDue ==
    /\ [][\A e \in NewlyFired :
             ~e.missed => (C10_Due(e.id) /\ e.instant = schedules[e.id].nextTriggerAt)]_vars
    /\ [](polled => \A id \in DOMAIN schedules :
                       ~(C10_Due(id) /\ schedules[id].favoriteId \in DOMAIN favorites))

\* C10 happens: the poller has fired a schedule.
C10_Witness == \E e \in BagToSet(fired) : ~e.missed


\* Eligible for missed-trigger recovery, as C11 states it, for schedule id
\* in the current state.
C11_Missed(id) ==
    LET s == schedules[id]
    IN /\ s.enabled
       /\ s.nextTriggerAt # NULL
       /\ s.nextTriggerAt < now
       /\ now - s.nextTriggerAt < 5 * 60 * 1000
       /\ (s.lastTriggeredAt = NULL \/ s.lastTriggeredAt < s.nextTriggerAt)

\* C11: missed-trigger recovery fires a schedule only if it is enabled, its
\* nextTriggerAt is in the past and less than 5 minutes old and its
\* lastTriggeredAt is earlier; when the page becomes visible it fires every
\* such schedule (whose favorite exists); and no scan fires a schedule for
\* an instant that is 5 minutes old or older.
C11_MissedRecovery ==
    [][/\ \A e \in NewlyFired :
             /\ now - e.instant < 5 * 60 * 1000
             /\ e.missed => (C11_Missed(e.id) /\ e.instant = schedules[e.id].nextTriggerAt)
       /\ OnVisibilityChange("visible") =>
             \A id \in DOMAIN schedules :
                 (C11_Missed(id) /\ schedules[id].favoriteId \in DOMAIN favorites)
                 => \E e \in NewlyFired : e.id = id /\ e.missed]_vars

\* C11 happens: a schedule has been fired by missed-trigger recovery, and a
\* later trigger instant of an enabled schedule is now older than the window
\* and was not fired.
C11_Witness ==
    /\ \E e \in BagToSet(fired) : e.missed
    /\ \E id \in DOMAIN schedules :
          /\ schedules[id].enabled
          /\ schedules[id].nextTriggerAt # NULL
          /\ now - schedules[id].nextTriggerAt >= 5 * 60 * 1000
          /\ FireCount(id, schedules[id].nextTriggerAt) = 0
          /\ polled

\* C16: every step that changes a schedule's nextTriggerAt (create, update,
\* toggle, markTriggered) stores null or an instant strictly later than the
\* clock at that step; so do the schedules created at the start.
C16_NextTriggerInFuture ==
    /\ \A id \in DOMAIN schedules :
          (ticks = 0 /\ edits = 0 /\ schedules[id].lastTriggeredAt = NULL)
          => (schedules[id].nextTriggerAt = NULL \/ schedules[id].nextTriggerAt > now)
    /\ [][\A id \in DOMAIN schedules :
             schedules'[id].nextTriggerAt # schedules[id].nextTriggerAt
             => (schedules'[id].nextTriggerAt = NULL
                   \/ schedules'[id].nextTriggerAt > now)]_vars

\* C16 happens: a recurring schedule has fired and markTriggered stored a
\* later instant as its nextTriggerAt.
C16_Witness ==
    \E id \in DOMAIN schedules :
        /\ schedules[id].type = "recurring"
        /\ schedules[id].lastTriggeredAt # NULL
        /\ schedules[id].nextTriggerAt # NULL
        /\ schedules[id].nextTriggerAt > schedules[id].lastTriggeredAt

\* C17: a schedule's lastTriggeredAt changes only in a step that fires the
\* schedule, and then to a later instant (null counting as earlier than any
\* instant); edits, toggles and snoozes leave it alone.
C17_LastTriggeredMonotonic ==
    [][\A id \in DOMAIN schedules :
          /\ schedules'[id].lastTriggeredAt >= schedules[id].lastTriggeredAt
          /\ schedules'[id].lastTriggeredAt # schedules[id].lastTriggeredAt
             => (\E e \in NewlyFired : e.id = id)]_vars

\* C17 happens: a schedule has fired twice and was edited in between or
\* afterwards, its lastTriggeredAt kept.
C17_Witness ==
    \E id \in DOMAIN schedules :
        /\ FiresOf(id) >= 2
        /\ edits >= 1
        /\ schedules[id].lastTriggeredAt # NULL

\* C18: a step in which the banner's schedule is snoozed sets that
\* schedule's snooze entry to now + 5 minutes and changes nothing else in
\* the snooze map nor any schedule's nextTriggerAt, lastTriggeredAt or
\* enabled flag.
C18_SnoozeFrame ==
    [][snoozeMark' # snoozeMark =>
          /\ DOMAIN snoozedSchedules' = DOMAIN snoozedSchedules \cup {banner}
          /\ snoozedSchedules'[banner] = now + 5 * 60 * 1000
          /\ \A id \in DOMAIN snoozedSchedules \ {banner} :
                snoozedSchedules'[id] = snoozedSchedules[id]
          /\ DOMAIN schedules' = DOMAIN schedules
          /\ \A id \in DOMAIN schedules :
                /\ schedules'[id].nextTriggerAt = schedules[id].nextTriggerAt
                /\ schedules'[id].lastTriggeredAt = schedules[id].lastTriggeredAt
                /\ schedules'[id].enabled = schedules[id].enabled]_vars

\* C18 happens: a schedule was snoozed while the other schedule had a snooze
\* entry of its own, and that entry is still there.
C18_Witness ==
    /\ DOMAIN snoozedSchedules = {1, 2}
    /\ DOMAIN snoozeMark = {1, 2}
    /\ snoozedSchedules[1] # snoozedSchedules[2]
    /\ \E id \in DOMAIN schedules : schedules[id].nextTriggerAt # NULL

\* The triggerOrder calls made in the current step.
NewCalls == {c \in DOMAIN calls' : c > Len(calls)}

\* The schedules with autoOpen that fire in the current step.
AutoFires == {e \in NewlyFired : schedules[e.id].autoOpen}

C20_PollerNotBlocked ==
    /\ [][\A c \in NewCalls :
             /\ calls'[c].pc \in {"checkServer", "rejected"}
             /\ requests' = requests
             /\ history' = history]_vars
    /\ [](InFlight(calls) # {} =>
             /\ ENABLED Poll
             /\ polled => \A id \in DOMAIN schedules :
                             ~(C10_Due(id) /\ schedules[id].favoriteId \in DOMAIN favorites))

\* C20 happens: a run is in flight on the server, a poll has run since the
\* clock last advanced, and a schedule that fired after the run began had
\* its own call rejected.
C20_Witness ==
    \E c \in InFlight(calls), d \in DOMAIN calls :
        /\ c < d
        /\ calls[c].pc = "awaitOrder"
        /\ c \in ActiveRuns(requests)
        /\ calls[d].pc = "rejected"
        /\ polled
        /\ \E e1, e2 \in BagToSet(fired) : e1.instant < e2.instant

\* ------------------------------------------------ the order subsystem's claims
\* The history entries written by call c.
RecordsOf(c) == {i \in DOMAIN history : history[i].call = c}

\* C3: at most one triggerOrder call is in flight at a time; a call made
\* while another is in flight is rejected, is the only kind of call that is
\* rejected, starts no server request, and stays rejected for ever.
C3_OneInFlight ==
    /\ [](/\ Cardinality(InFlight(calls)) <= 1
          /\ \A c \in DOMAIN calls :
                calls[c].pc = "rejected" => c \notin DOMAIN requests)
    /\ [][/\ \A c \in DOMAIN calls :
                calls[c].pc = "rejected" => calls'[c].pc = "rejected"
          /\ Len(calls') > Len(calls) =>
                /\ calls'[Len(calls')].pc = "rejected" <=> InFlight(calls) # {}
                /\ calls'[Len(calls')].pc = "rejected" =>
                      /\ requests' = requests
                      /\ history' = history
                      /\ isAutomating' = isAutomating]_vars

\* C3's case: a call was rejected while the run of an earlier call is
\* adding items on the server.
C3_Witness ==
    \E c, d \in DOMAIN calls :
        /\ c < d
        /\ calls[c].pc = "awaitOrder"
        /\ c \in ActiveRuns(requests)
        /\ calls[d].pc = "rejected"

\* C4: the server never has two automateOrder executions active at once.
C4_OneServerRun == Cardinality(ActiveRuns(requests)) <= 1

\* C5: a history entry written from a server result records the number of
\* items really added, and its status is completed iff all requested items
\* were added (none of none included), partial iff some but not all, failed
\* iff none of one or more; an entry written for an aborted run is failed.
C5_StatusFromCounts ==
    \A i \in DOMAIN history :
        LET h == history[i]
            requested == Len(h.items)
        IN IF h.actual = NULL THEN h.status = "failed"
           ELSE /\ h.itemsAdded = h.actual
                /\ h.status = "completed" <=> h.actual = requested
                /\ h.status = "partial" <=> (0 < h.actual /\ h.actual < requested)
                /\ h.status = "failed" <=> (h.actual = 0 /\ requested > 0)

\* C6 as stated: every triggerOrder call that has returned has written
\* exactly one history entry; no call has written more than one.
C6_OneRecordPerInvocation ==
    \A c \in DOMAIN calls :
        /\ Cardinality(RecordsOf(c)) <= 1
        /\ calls[c].pc \in {"done", "rejected"} => Cardinality(RecordsOf(c)) = 1

\* C6, amended: a triggerOrder call that passed the isAutomating guard has
\* written exactly one history entry by the time it returns and none before;
\* a rejected call writes none; every entry belongs to a call.
C6_OneRecordPerRun ==
    /\ \A c \in DOMAIN calls :
          Cardinality(RecordsOf(c)) = (IF calls[c].pc = "done" THEN 1 ELSE 0)
    /\ \A i \in DOMAIN history : history[i].call \in DOMAIN calls

\* C6's case: a call was rejected while another was in flight, and that
\* other call has since returned from a run the server answered.
C6_Witness ==
    \E c, d \in DOMAIN calls :
        /\ calls[c].pc = "done"
        /\ \E i \in RecordsOf(c) : history[i].actual # NULL
        /\ calls[d].pc = "rejected"


\* ------------------------------------------------------- the server's claims
\* The expected site: the host is doordash.com or a name under it.
OnExpectedSite(host) ==
    /\ Len(host) >= 2
    /\ host[Len(host) - 1] = "doordash"
    /\ host[Len(host)] = "com"

\* How many of a run's attempts returned success.
Fulfilled(attempts) ==
    Cardinality({i \in DOMAIN attempts : attempts[i][2] = "added"})

\* C12: the items of a run are attempted in list order, each once; the count
\* of added items is the number of attempts that returned success, between 0
\* and the number of requested items; and a run that has started on its items
\* ends only after the last item, with 200 and that count, whatever the
\* earlier attempts did.
C12_ItemFailuresAbsorbed ==
    \A r \in DOMAIN requests :
        LET q == requests[r]
            k == Len(q.attempts)
        IN /\ k <= Len(q.items)
           /\ \A i \in 1..k : q.attempts[i][1] = q.items[i]
           /\ q.itemsAdded = Fulfilled(q.attempts)
           /\ 0 <= q.itemsAdded /\ q.itemsAdded <= Len(q.items)
           /\ (q.pc = "responded" /\ k > 0)
              => /\ k = Len(q.items)
                 /\ q.status = 200
                 /\ q.jsonItemsAdded = Fulfilled(q.attempts)

\* C12 happens: a run has ended whose first item failed and whose next item
\* was still attempted and added.
C12_Witness ==
    \E r \in DOMAIN requests :
        /\ requests[r].pc = "responded"
        /\ Len(requests[r].attempts) >= 2
        /\ requests[r].attempts[1][2] = "notAdded"
        /\ requests[r].attempts[2][2] = "added"

\* C13: a run whose navigation ended off the expected site, or whose login
\* prompt stayed for 120 s, has attempted no item and is answered 500 with a
\* message; and a triggerOrder call that receives a 500 appends exactly one
\* entry to the history, failed and carrying that message.
C13_SessionFailureAborts ==
    /\ [](\A r \in DOMAIN requests :
             LET q == requests[r]
             IN (\/ (q.page # <<>> /\ ~OnExpectedSite(q.page))
                 \/ q.error = "Waiting for selector failed: 120000ms exceeded")
                => /\ q.pc = "responded"
                   /\ q.status = 500
                   /\ q.error # ""
                   /\ q.attempts = <<>>)
    /\ [][\A c \in DOMAIN calls :
             (/\ calls[c].pc = "awaitOrder"
              /\ calls'[c].pc = "done"
              /\ requests[c].status = 500)
             => /\ Len(history') = Len(history) + 1
                /\ history'[Len(history')].call = c
                /\ history'[Len(history')].status = "failed"
                /\ history'[Len(history')].errorMessage = requests[c].error]_vars

C15_ValidationBeforeBrowser ==
    \A r \in DOMAIN requests :
        LET q == requests[r]
        IN ~(q.url.present /\ q.url.parsable /\ OnExpectedSite(q.url.host))
           => /\ q.pc = "responded"
              /\ q.status = 400
              /\ q.error # ""
              /\ q.browser = "none"

\* ------------------------------------------------ the trigger button's claim
\* C21 as stated: every manualTrigger of an existing schedule with an
\* existing favorite starts an automation run.
C21_ManualTriggerStartsRun ==
    [][\A c \in NewCalls :
          calls'[c].origin = "manual" => calls'[c].pc = "checkServer"]_vars

\* C21, amended: in every state, whatever the schedule's enabled flag,
\* nextTriggerAt, lastTriggeredAt and snooze entry, manualTrigger of an
\* existing schedule with an existing favorite calls triggerOrder for that
\* favorite and changes nothing of the schedule, the snooze map or the
\* fires; the call starts a run unless a run is in flight, and then it is
\* rejected.
C21_ManualTriggerBypasses ==
    /\ [](\A id \in DOMAIN schedules :
             schedules[id].favoriteId \in DOMAIN favorites
             => LET st == manualTrigger(scanState, id)
                IN /\ st.calls = Append(calls,
                                        [pc |-> IF isAutomating THEN "rejected"
                                                ELSE "checkServer",
                                         favoriteId |-> schedules[id].favoriteId,
                                         origin |-> "manual"])
                   /\ st.isAutomating
                   /\ st.schedules = schedules
                   /\ st.snoozed = snoozedSchedules
                   /\ st.fired = fired)
    /\ [][\A c \in NewCalls :
             calls'[c].origin = "manual"
             => /\ calls'[c].pc = "checkServer" <=> ~isAutomating
                /\ schedules' = schedules
                /\ snoozedSchedules' = snoozedSchedules
                /\ fired' = fired]_vars

\* C21 happens: manualTrigger has just started a run for a schedule that has
\* fired, is disabled and has a snooze entry that has not elapsed.
C21_Witness ==
    /\ calls # <<>>
    /\ calls[Len(calls)].origin = "manual"
    /\ calls[Len(calls)].pc = "checkServer"
    /\ \E id \in DOMAIN schedules :
          /\ ~schedules[id].enabled
          /\ schedules[id].lastTriggeredAt # NULL
          /\ id \in DOMAIN snoozedSchedules
          /\ snoozedSchedules[id] > now

\* ------------------------------------------- calculateNextTrigger's claims
\* The candidate of day i of the scan: that day at the time of day, minus the
\* reminder offset.
C22_Candidate(data, t, i) ==
    startOfDay(t) + i * DAY + data.time[1] * HOUR + data.time[2] * MINUTE
      - data.reminderMinutesBefore * MINUTE

\* The days of the scan that yield a candidate after t: today and the next
\* six days, those whose weekday is selected.
C22_FutureDays(data, t) ==
    {i \in 0..6 : /\ getDay(startOfDay(t) + i * DAY) \in data.daysOfWeek
                  /\ C22_Candidate(data, t, i) > t}

\* C22: for a recurring timing calculateNextTrigger returns the candidate of
\* the first of the 7 days from today whose weekday is selected and whose
\* candidate is strictly after now, and none if the time is missing, no day
\* is selected or no scanned day has such a candidate.
C22_RecurringFirstCandidate ==
    \A k \in DOMAIN output :
        (input # NoInput /\ input.type = "recurring")
        => output[k] =
             (IF input.time = NOTIME \/ input.daysOfWeek = {}
                   \/ C22_FutureDays(input, now) = {}
              THEN NULL
              ELSE C22_Candidate(input, now, Min(C22_FutureDays(input, now))))

\* C22 happens: days {Mon, Wed} at 12:00 with no offset, called on Sunday
\* 10:00, gave Monday 12:00.
C22_Witness ==
    /\ now = 10 * HOUR
    /\ input # NoInput
    /\ input.type = "recurring" /\ input.daysOfWeek = {1, 3}
    /\ input.time = <<12, 0>> /\ input.reminderMinutesBefore = 0
    /\ output = <<DAY + 12 * HOUR, DAY + 12 * HOUR>>

\* C23: for a one-time timing with target T and offset O every call returns
\* T - O if that is strictly after now and none otherwise, and two calls at
\* the same instant return the same.
C23_OnceCandidateOrNone ==
    /\ \A k \in DOMAIN output :
          (input # NoInput /\ input.type = "once" /\ input.dateTime # NULL)
          => LET candidate == input.dateTime - input.reminderMinutesBefore * MINUTE
             IN output[k] = (IF candidate > now THEN candidate ELSE NULL)
    /\ \A j, k \in DOMAIN output : output[j] = output[k]

\* C23 happens: a target 15 minutes and a millisecond ahead with an offset
\* of 15 minutes gave the instant a millisecond ahead, twice.
C23_Witness ==
    /\ input # NoInput
    /\ input.type = "once"
    /\ input.reminderMinutesBefore = 15
    /\ output = <<now + 1, now + 1>>

\* ----------------------------------------------------- fuzzyMatch's claims
\* The words of a string: its longest runs of characters other than the
\* space, each given by its first and last position.
C24_Words(s) ==
    {<<i, j>> \in (1..Len(s)) \X (1..Len(s)) :
        /\ i <= j
        /\ \A k \in i..j : s[k] # " "
        /\ (i = 1 \/ s[i - 1] = " ")
        /\ (j = Len(s) \/ s[j + 1] = " ")}

\* What C24 says fuzzyMatch answers for a candidate and a query.
C24_Expected(candidate, query) ==
    LET c == normalize(candidate)
        q == normalize(query)
        queryWords == {w \in C24_Words(q) : w[2] - w[1] + 1 > 2}
        overlaps(w) ==
            \E v \in C24_Words(c) :
                \/ includes(SubSeq(c, v[1], v[2]), SubSeq(q, w[1], w[2]))
                \/ includes(SubSeq(q, w[1], w[2]), SubSeq(c, v[1], v[2]))
    IN \/ c = q
       \/ includes(c, q)
       \/ includes(q, c)
       \/ /\ queryWords # {}
          /\ 10 * Cardinality({w \in queryWords : overlaps(w)})
               >= 7 * Cardinality(queryWords)

\* C24: for a candidate and a query that are not empty, fuzzyMatch is true
\* iff the normalized strings are equal, or one contains the other, or at
\* least 70% of the query's words longer than 2 characters each contain or
\* are contained in some word of the candidate; Chicken Burrito Bowl matches
\* Chicken Bowl, and Salad does not match Burger.
C24_MatchIffOverlap ==
    \A k \in DOMAIN output :
        (/\ input.fn = "fuzzyMatch"
         /\ input.menuItemName # <<>>
         /\ input.searchName # <<>>)
        => /\ output[k] = C24_Expected(input.menuItemName, input.searchName)
           /\ (input.menuItemName = ChickenBurritoBowl /\ input.searchName = ChickenBowl)
              => output[k]
           /\ (input.menuItemName = Salad /\ input.searchName = Burger)
              => ~output[k]

\* A lowercase letter or a digit.
C25_Alphanumeric(c) == c \in Digits \/ \E i \in 1..26 : c = LowerCase[i]

\* C25: normalize(s) consists of the letters and digits of s, lowercased and
\* in order, and of single spaces between them: no other character, no space
\* at either end, no two spaces in a row; normalize('Chicken Bowl!') is
\* 'chicken bowl'.
C25_NormalizedForm ==
    \A k \in DOMAIN output :
        input.fn = "normalize"
        => LET r == output[k]
               ink(c) == c # " "
               wanted(c) == C25_Alphanumeric(c)
           IN /\ \A i \in DOMAIN r : C25_Alphanumeric(r[i]) \/ r[i] = " "
              /\ r # <<>> => (r[1] # " " /\ r[Len(r)] # " ")
              /\ \A i \in 1..(Len(r) - 1) : ~(r[i] = " " /\ r[i + 1] = " ")
              /\ SelectSeq(r, ink) = SelectSeq(toLowerCase(input.str), wanted)
              /\ input.str = ChickenBowlMark
                 => r = <<"c", "h", "i", "c", "k", "e", "n", " ", "b", "o", "w", "l">>

\* ------------------------------------------- the claims about a dead schedule
\* An enabled recurring schedule with a weekday selected whose nextTriggerAt
\* is null or older than the recovery window.
C26_Dead(id) ==
    /\ id \in DOMAIN schedules
    /\ schedules[id].enabled
    /\ schedules[id].type = "recurring"
    /\ schedules[id].daysOfWeek # {}
    /\ \/ schedules[id].nextTriggerAt = NULL
       \/ now - schedules[id].nextTriggerAt >= 5 * MINUTE

\* C26: an enabled recurring schedule with a weekday selected whose
\* nextTriggerAt is null or older than the recovery window eventually has a
\* nextTriggerAt in the future again, with no edit or toggle by the operator.
C26_NeverDead ==
    \A id \in ScheduleIds :
        C26_Dead(id) ~> (/\ schedules[id].nextTriggerAt # NULL
                         /\ schedules[id].nextTriggerAt > now)

\* ------------------------------------------- the claims about a punctual timer
\* C27: with a check exactly every 30 s, a check fires an enabled, un-snoozed
\* schedule whose favorite exists iff its nextTriggerAt is at or before the
\* check, and then that instant is later than the previous check (it is the
\* first check at or after the instant); after a check no enabled schedule
\* is left with a nextTriggerAt at or before the clock (no gap); and no
\* instant is fired twice (no overlap).
C27_PunctualPollFiresOnce ==
    /\ [][ticks' # ticks =>
             \A id \in DOMAIN schedules :
                 (/\ schedules[id].enabled
                  /\ schedules[id].nextTriggerAt # NULL
                  /\ schedules[id].favoriteId \in DOMAIN favorites
                  /\ ~(id \in DOMAIN snoozedSchedules /\ snoozedSchedules[id] > now'))
                 => /\ (\E e \in NewlyFired :
                           e.id = id /\ e.instant = schedules[id].nextTriggerAt)
                       <=> schedules[id].nextTriggerAt <= now'
                    /\ schedules[id].nextTriggerAt <= now'
                       => schedules[id].nextTriggerAt > now]_vars
    /\ [](\A id \in DOMAIN schedules :
             (schedules[id].enabled /\ schedules[id].nextTriggerAt # NULL)
             => schedules[id].nextTriggerAt > now)
    /\ [](\A e \in BagToSet(fired) : FireCount(e.id, e.instant) = 1 /\ ~e.missed)

\* C27 happens: one schedule was fired by a check at the very instant of its
\* trigger, the other by the first check after its trigger.
C27_Witness ==
    \E e1, e2 \in BagToSet(fired) :
        /\ e1.id # e2.id
        /\ schedules[e1.id].lastTriggeredAt = e1.instant
        /\ schedules[e2.id].lastTriggeredAt > e2.instant
        /\ schedules[e2.id].lastTriggeredAt < e2.instant + CHECK_INTERVAL

\* --------------------------------------------- the claims about lost orders
\* How often the schedules with autoOpen among ids have fired.
RECURSIVE C28_AutoFires(_)
C28_AutoFires(ids) ==
    IF ids = {} THEN 0
    ELSE LET id == Min(ids)
         IN (IF schedules[id].autoOpen THEN FiresOf(id) ELSE 0)
              + C28_AutoFires(ids \ {id})

\* C28: every firing of a schedule with autoOpen has an automation run of
\* its own: as many triggerOrder calls made by the scheduler have passed the
\* isAutomating guard as schedules with autoOpen have fired.
C28_NoScheduledRunLost ==
    Cardinality({c \in DOMAIN calls :
                    calls[c].origin = "schedule" /\ calls[c].pc # "rejected"})
      = C28_AutoFires(DOMAIN schedules)

\* ------------------------------------------- the claims about the in-flight flag
\* C29: isAutomating is set exactly while a call that passed the guard has
\* not returned; the step in which such a call returns, on whatever path,
\* clears it; a new call is accepted iff the flag is clear, and then sets it;
\* a rejected call leaves the flag as it is.
C29_FlagTracksRun ==
    /\ [](isAutomating <=> InFlight(calls) # {})
    /\ [][/\ \A c \in DOMAIN calls :
                (c \in InFlight(calls) /\ calls'[c].pc = "done") => ~isAutomating'
          /\ Len(calls') > Len(calls) =>
                LET new == calls'[Len(calls')]
                IN /\ new.pc = "checkServer" <=> ~isAutomating
                   /\ new.pc = "checkServer" => isAutomating'
                   /\ new.pc = "rejected" => (isAutomating /\ isAutomating')]_vars

\* C29 happens: a run was ended by an error answer of the server, the flag
\* was cleared, and a later call has been accepted and is in flight.
C29_Witness ==
    \E c, d \in DOMAIN calls :
        /\ c < d
        /\ calls[c].pc = "done"
        /\ \E i \in RecordsOf(c) :
              history[i].errorMessage = "Navigation failed - not on DoorDash"
        /\ d \in InFlight(calls)
        /\ isAutomating

C31_TriggeredByTellsOrigin ==
    \A i \in DOMAIN history :
        history[i].triggeredBy = calls[history[i].call].origin

C33_SearchFieldCleared ==
    (menuPage.pc \in {"scroll", "listing", "done"}
       /\ menuPage.searched \in {"added", "failed", "threw"})
    => menuPage.field = "empty"

\* C34: clickAddToCart clicks the affirming control of the detail view if
\* there is one and returns true; with controls but no affirming one it
\* clicks the last control and returns true; with no control it closes the
\* view and returns false; when the view does not appear it returns false.
C34_AddToCartFallback ==
    menuPage.pc # "loaded"
    => LET cart == menuPage.cart
       IN /\ cart.view = "affirm" => (cart.clicked = "affirm" /\ cart.added)
          /\ cart.view = "controls" => (cart.clicked = "last" /\ cart.added)
          /\ cart.view = "bare"
               => (cart.clicked = "none" /\ cart.closed # "no" /\ ~cart.added)
          /\ cart.view = "absent" => ~cart.added

\* The entries whose name matches the item.
C35_Matching == Views \cup {"throwsOpen"}

\* C35 as stated: every item is resolved in the end; the search strategy
\* inspects each entry at most once; the scroll strategy makes at most 5
\* reveal steps and does not go past a matching entry.
C35_StopsAtFirstMatch ==
    /\ <>(Len(output) = input.items)
    /\ [](menuPage.pc # "loaded" => menuPage.step <= ScrollSteps)
    /\ [][(menuPage.pc = "results" /\ menuPage'.pc = "results")
            => (menuPage'.idx = menuPage.idx + 1 /\ menuPage'.n = menuPage.n)]_vars
    /\ [](menuPage.pc = "listing" => menuPage.last \notin C35_Matching)

\* C35, amended: every item is resolved in the end; the search strategy
\* inspects each entry at most once; the scroll strategy makes at most 5
\* reveal steps and does not go past a matching entry that it could open; a
\* matching entry whose opening throws is skipped and the loop goes on.
C35_Terminates ==
    /\ <>(Len(output) = input.items)
    /\ [](menuPage.pc # "loaded" => menuPage.step <= ScrollSteps)
    /\ [][(menuPage.pc = "results" /\ menuPage'.pc = "results")
            => (menuPage'.idx = menuPage.idx + 1 /\ menuPage'.n = menuPage.n)]_vars
    /\ [](menuPage.pc = "listing" => menuPage.last \notin Views)
    /\ [][(menuPage.pc = "listing" /\ menuPage.idx < menuPage.n
               /\ menuPage'.last = "throwsOpen")
            => (menuPage'.pc = "listing" /\ menuPage'.idx = menuPage.idx + 1)]_vars

\* C35 happens: a run over two items has ended, and for the last item the
\* scroll strategy made all its reveal steps and found nothing.
C35_Witness ==
    /\ input.items = 2
    /\ Len(output) = 2
    /\ menuPage.pc = "done"
    /\ menuPage.step = ScrollSteps
    /\ output[2] = FALSE

\* --------------------------------------- the claim about the two URL checks
\* C38: every storeUrl that DoorDash.validateUrl rejects because its host is
\* neither doordash.com nor www.doordash.com is answered 400 by
\* POST /api/order, and no run is started for it.
C38_ServerAsStrictAsClient ==
    \A r \in DOMAIN requests :
        (\E storePath \in BOOLEAN :
            validateUrl(requests[r].url, storePath).message
               = "URL must be from doordash.com")
        => (requests[r].pc = "responded" /\ requests[r].status = 400)

\* ---------------------------------- the claim about the stored trigger instant
\* The nextTriggerAt of stored schedule s is what calculateNextTrigger gives
\* at instant t for the stored timing and the stored reminderMinutesBefore.
C36_Consistent(s, t) == s.nextTriggerAt = calculateNextTrigger(timingOf(s), t)

\* C36: right after SchedulesModel.create (the first state), and right after
\* every update or markTriggered (a step that changes the stored schedule),
\* the stored nextTriggerAt equals the result of calculateNextTrigger for
\* the stored timing and stored reminderMinutesBefore at that moment, also
\* when the offset asked for is 0 minutes.
C36_NextTriggerFromStored ==
    /\ \A id \in DOMAIN schedules : C36_Consistent(schedules[id], now)
    /\ [][\A id \in DOMAIN schedules :
            schedules'[id] # schedules[id] => C36_Consistent(schedules'[id], now')]_vars

\* ------------------------------------- the claim about a missing favorite
\* C37: a scan (poll or missed-trigger recovery; a step that is no import,
\* snooze or edit) leaves a schedule whose
\* favorite does not exist as it is: lastTriggeredAt, nextTriggerAt and
\* enabled are unchanged, the snooze registry is unchanged, and no banner,
\* firing or automation run is started for it.
C37_MissingFavoriteNoOp ==
    [][(favorites' = favorites /\ snoozeMark' = snoozeMark /\ edits' = edits)
        => \A id \in DOMAIN schedules :
              schedules[id].favoriteId \notin DOMAIN favorites
              => /\ schedules'[id] = schedules[id]
                 /\ snoozedSchedules' = snoozedSchedules
                 /\ \A e \in NewlyFired : e.id # id
                 /\ banner' # banner => banner' # id
                 /\ calls' = calls]_vars

\* ------------------------------------------- the claim about the poll timer
\* C39: after any sequence of startPolling and stopPolling calls at most one
\* interval timer runs; after startPolling exactly the one in intervalId
\* runs, and the call has made a check at once (every schedule due at that
\* moment is fired in the same step); after stopPolling none runs.
C39_OnePollTimer ==
    /\ [](Cardinality(timers.active) <= 1)
    /\ [](timers.last = "start" => timers.active = {timers.intervalId})
    /\ [](timers.last = "stop" => timers.active = {})
    /\ [][timers'.made # timers.made
            => /\ polled'
               /\ \A id \in DOMAIN schedules :
                     isDue(schedules[id], now)
                     => \E e \in NewlyFired : e.id = id]_vars

\* C39 happens: startPolling was called again while a timer ran, its
\* immediate check fired a schedule, and the one timer that runs is the new
\* one.
C39_Witness ==
    /\ timers.last = "start"
    /\ timers.made >= 2
    /\ timers.immediate >= 1
    /\ timers.active = {timers.made}

\* ----------------------------------------- the claim about empty names
\* C40: fuzzyMatch is false whenever the candidate or the query is empty
\* after normalization, as a name of punctuation or whitespace only is.
C40_EmptyNameMatchesNothing ==
    \A k \in DOMAIN output :
        (/\ input.fn = "fuzzyMatch"
         /\ \/ normalize(input.menuItemName) = <<>>
            \/ normalize(input.searchName) = <<>>)
        => output[k] = FALSE

=============================================================================
